---- MODULE Spec2Model ----
(***************************************************************************)
(* Key lifecycle of the encrypted diary: the profile store (Supabase       *)
(* table profiles), the CryptoContext key, DiaryApp's keyStatus machine,   *)
(* first-time setup (InitializeEncryption), password re-auth               *)
(* (PasswordPrompt) and sign-out, for several browser clients that share   *)
(* one backend.                                                            *)
(***************************************************************************)
EXTENDS Integers, Sequences, FiniteSets, TLC

\* ------------------------------------------------------------------ bounds
\* Browser clients (tabs or devices) running the app against one backend.
NumClients == 2

\* Diary rows ever inserted.
MaxRows == 2

\* Stored diary rows in a batch that fetchEntries loads.
MaxBatch == 3

\* ------------------------------------------------------- program constants
MinPasswordLength == 6

Clients == 1..NumClients

\* ----------------------------------------------------------- input values
\* The auth account the clients sign in to.
Accounts == {1}
\* Values generateSalt can return, and ivs encrypt can draw.
Salts == {1, 2}
Ivs == {1}
\* Two acceptable passwords and one that the length check rejects.
Passwords == {"correcthorse", "hunter22", "abc"}
\* Titles and bodies typed into the editor.
Titles == {"t1", "t2"}
Bodies == {"b1"}

Null == "null"
NoSession == 0
NullSalt == 0
NullIv == 0
NoKey == [pw |-> Null, salt |-> NullSalt]
NoCipher == [k |-> NoKey, pt |-> Null, iv |-> NullIv]
DecryptError == [ok |-> FALSE, pt |-> Null]
KEY_CHECK_STRING == "key-check"

KeyStatuses == {"checking", "needed", "reauth", "ready"}

\* Outcome of one request to the store: answered, refused before it was
\* applied, or applied with the answer lost on the way back.
Outcomes == {"ok", "refused", "lost"}

\* ----------------------------------------------------------- lib/crypto
\* PBKDF2: deterministic in (password, salt), distinct inputs give
\* distinct keys.
deriveKey(password, salt) == [pw |-> password, salt |-> salt]

\* AES-GCM under a fresh iv: the ciphertext opens only under the same key
\* and iv.
encrypt(k, plaintext, iv) ==
    [iv |-> iv, data |-> [k |-> k, pt |-> plaintext, iv |-> iv]]

decrypt(k, data, iv) ==
    IF data # NoCipher /\ data.k = k /\ data.iv = iv
    THEN [ok |-> TRUE, pt |-> data.pt] ELSE DecryptError

verifyKeyCheck(k, row) ==
    LET r == decrypt(k, row.key_check_value, row.key_check_iv)
    IN r.ok /\ r.pt = KEY_CHECK_STRING

\* deriveAndVerifyKey(password, userId) over the rows the profile query
\* returned: the key, or NoKey when there is no row or the key check does
\* not verify.
deriveAndVerifyKey(password, rows) ==
    IF rows = {} THEN NoKey
    ELSE LET row == CHOOSE r \in rows : TRUE
             k == deriveKey(password, row.salt)
         IN IF verifyKeyCheck(k, row) THEN k ELSE NoKey

\* ----------------------------------------------------------------- state
VARIABLES
    profiles,     \* table public.profiles: a set of rows, keyed by id
    session,      \* per client: the signed-in account, or NoSession
    key,          \* per client: CryptoContext key
    keyStatus,    \* per client: DiaryApp keyStatus
    op,           \* per client: the lifecycle request in flight
    signingOut,   \* per client: supabase.auth.signOut() in flight
    error,        \* per client: error shown by the setup / password form
    initLoading,  \* per client: InitializeEncryption loading flag
    profile,      \* per client: DiaryApp profile state ({} is null)
    diaries,      \* table public.diaries: a set of rows, keyed by id
    nextId,       \* the id and created_at the next inserted diary row gets
    entries,      \* per client: DiaryApp entries, the decrypted list
    loading,      \* per client: DiaryApp loading
    viewState,    \* per client: DiaryApp viewState
    effectDue,    \* per client: the effect on keyStatus 'ready' has to run
    fetch,        \* per client: fetchEntries in flight
    pfetch,       \* per client: fetchProfile in flight
    save,         \* per client: handleSaveEntry in flight
    issued,       \* per client: the encrypt / decrypt calls issued so far,
                  \* each with the state it was issued in
    warnings,     \* per client: failedCount of the last fetchEntries (the
                  \* count console.warn reports when it is not 0)
    bio,          \* per client: the registerBiometric / unlockBiometric call
                  \* in flight, at its pending authenticator request
    bioResult,    \* per client: how the last such call ended
    bioRecord,    \* per client: the BiometricData the device keeps
    bioSupport,   \* per client: how the last isBiometricSupported call
                  \* settled, with what the platform gave it
    alerted,      \* per client: the window.alert raised by the last run of
                  \* fetchEntries, handleSaveEntry or handleDeleteEntry,
                  \* NoAlert when it raised none
    lookupResult  \* per client: what the profile lookup of checkKeyStatus
                  \* last answered the mounted app: "error", "profile"
                  \* (a row), "null" (no row), or "none" before any answer

bioVars == <<bio, bioResult, bioRecord, bioSupport>>
lifecycleVars == <<profiles, session, key, keyStatus, op, signingOut, error,
                   initLoading, bioVars, lookupResult>>
contentVars == <<diaries, nextId, entries, loading, viewState, fetch, pfetch,
                 save, issued, warnings, alerted>>
vars == <<lifecycleVars, profile, effectDue, contentVars>>

NoOp == [kind |-> "none"]

\* The alerts of the diary handlers.
NoAlert == "none"
AlertFetchFailed ==
    "Could not fetch diary entries. Please check your network connection."
AlertNoKey == "Security session expired. Please log in again."
AlertSaveFailed == "Failed to save entry. Please try again."
AlertDeleteFailed == "Failed to delete entry. Please try again."

\* Variant: the error of a store answer is not thrown.
StoreError_Ignored(outcome) == FALSE

\* if (error) throw error, on the answer of a diaries request.
StoreError(outcome) == outcome # "ok"

\* ------------------------------------------------------- lib/webauthn data
\* encodeBase64 / decodeBase64 of a byte buffer.
encodeBase64(bytes) == [b64 |-> bytes]
decodeBase64(text) == text.b64

\* exportKey / importKey of the master key (base64 of its raw bytes).
exportKey(k) == [exported |-> k]
importKey(text) == text.exported

\* The authenticator's PRF: one output per credential and salt.
PRF(cred, salt) == [cred |-> cred, salt |-> salt]

\* crypto.subtle.importKey('raw', prfKeyMaterial, 'AES-GCM'): the wrapping
\* key is the PRF output's bytes.
WrappingKey(prf) == [raw |-> prf]

\* No BiometricData kept.
NoRecord ==
    [credentialId |-> encodeBase64(0), salt |-> encodeBase64(NullSalt),
     encryptedKey |-> [k |-> WrappingKey(PRF(0, NullSalt)),
                       pt |-> exportKey(NoKey), iv |-> NullIv],
     iv |-> NullIv]

NoCall == [kind |-> "none"]
NoResult == [call |-> "none", ok |-> FALSE, err |-> Null, decrypted |-> FALSE,
             key |-> NoKey, record |-> NoRecord]

\* How a call ended, with the request it ended at and the answer the
\* authenticator gave to it.
Ended(result, stage, answered) ==
    [result |-> result, stage |-> stage, answered |-> answered]
NotEnded == Ended(NoResult, "none", "none")

\* isBiometricSupported has not been called.
NotAsked == [settled |-> "none", value |-> FALSE, api |-> FALSE,
             query |-> "none"]
NoEntry == 0
ListView == [view |-> "list", id |-> NoEntry]

\* DiaryApp is rendered for a client exactly while it has a session.
Mounted(c) == session[c] # NoSession

\* .eq('id', userId): the rows of the table with that primary key.
RowsOf(table, a) == {r \in table : r.id = a}

\* user.user_metadata of the auth account (no name or avatar from the
\* identity provider).
UserMetadata(a) == [full_name |-> Null, avatar_url |-> Null]

Init ==
    /\ profiles = {}
    /\ session = [c \in Clients |-> NoSession]
    /\ key = [c \in Clients |-> NoKey]
    /\ keyStatus = [c \in Clients |-> "checking"]
    /\ op = [c \in Clients |-> NoOp]
    /\ signingOut = [c \in Clients |-> FALSE]
    /\ error = [c \in Clients |-> Null]
    /\ initLoading = [c \in Clients |-> FALSE]
    /\ profile = [c \in Clients |-> {}]
    /\ diaries = {}
    /\ nextId = 1
    /\ entries = [c \in Clients |-> <<>>]
    /\ loading = [c \in Clients |-> TRUE]
    /\ viewState = [c \in Clients |-> ListView]
    /\ effectDue = [c \in Clients |-> FALSE]
    /\ fetch = [c \in Clients |-> NoOp]
    /\ pfetch = [c \in Clients |-> NoOp]
    /\ save = [c \in Clients |-> NoOp]
    /\ issued = [c \in Clients |-> {}]
    /\ warnings = [c \in Clients |-> 0]
    /\ alerted = [c \in Clients |-> NoAlert]
    /\ bio = [c \in Clients |-> NoCall]
    /\ bioResult = [c \in Clients |-> NotEnded]
    /\ bioRecord = [c \in Clients |-> NoRecord]
    /\ bioSupport = [c \in Clients |-> NotAsked]
    /\ lookupResult = [c \in Clients |-> "none"]

\* ------------------------------------------------- table public.profiles
\* INSERT: refused when a NOT NULL column is null or the primary key is
\* taken.
ProfilesInsertOk(table, row) ==
    /\ row.salt # NullSalt
    /\ row.key_check_value # NoCipher
    /\ row.key_check_iv # NullIv
    /\ RowsOf(table, row.id) = {}

\* Variant: the setup request is an upsert, replacing the row of the id.
SetupInsert_Upsert(table, row) ==
    {r \in table : r.id # row.id} \cup {row}

\* The insert of first-time setup: one row carrying id, salt, key check
\* and the identity provider's name and avatar.
SetupInsert(table, row) ==
    IF ProfilesInsertOk(table, row) THEN table \cup {row} ELSE table

\* Variant: the row stores a salt other than the one the key was derived
\* from (generateSalt called a second time for the payload).
NewProfileRow_OtherSalt(a, salt, check) ==
    [id |-> a, salt |-> CHOOSE s \in Salts : s # salt,
     key_check_value |-> check.data, key_check_iv |-> check.iv,
     full_name |-> UserMetadata(a).full_name,
     avatar_url |-> UserMetadata(a).avatar_url]

NewProfileRow(a, salt, check) ==
    [id |-> a, salt |-> salt,
     key_check_value |-> check.data, key_check_iv |-> check.iv,
     full_name |-> UserMetadata(a).full_name,
     avatar_url |-> UserMetadata(a).avatar_url]

\* Variant: the update also writes the salt column, as null.
ApplyUpdates_ResetsSalt(row, updates) ==
    [f \in DOMAIN row |-> IF f \in DOMAIN updates THEN updates[f]
                          ELSE IF f = "salt" THEN NullSalt ELSE row[f]]

\* UPDATE ... SET <updates> WHERE id = a: only the columns named in
\* updates change.
ApplyUpdates(row, updates) ==
    [f \in DOMAIN row |-> IF f \in DOMAIN updates THEN updates[f] ELSE row[f]]

ProfilesUpdate(table, a, updates) ==
    {IF r.id = a THEN ApplyUpdates(r, updates) ELSE r : r \in table}

\* What ProfilePanel and handleAvatarUpload pass to handleUpdateProfile.
ProfileUpdates == {[full_name |-> "Ann"], [avatar_url |-> "avatars/1.png"]}

\* ------------------------------------------------------------ DiaryApp
\* Variant: the early return for a held key is missing.
checkKeyStatus_AlwaysLooksUp(k, status, a) ==
    [status |-> status, op |-> [kind |-> "lookup", user |-> a]]

\* Variant: the status is set to ready whether or not a key is held.
checkKeyStatus_ReadyWithoutKey(k, status, a) ==
    [status |-> "ready", op |-> NoOp]

\* checkKeyStatus up to its first await: with a key held the status is
\* ready at once, otherwise the profile lookup is issued.
checkKeyStatus(k, status, a) ==
    IF k # NoKey
    THEN [status |-> "ready", op |-> NoOp]
    ELSE [status |-> status, op |-> [kind |-> "lookup", user |-> a]]

\* Variant: the two branches on the lookup result are swapped.
LookupStatus_Inverted(found) == IF found THEN "needed" ELSE "reauth"

\* checkKeyStatus after the lookup answered without error.
LookupStatus(found) == IF ~found THEN "needed" ELSE "reauth"

\* Variant: setKeyStatus('ready') without setKey.
handleKeyReady_StatusOnly(c, newKey) ==
    /\ UNCHANGED key
    /\ keyStatus' = [keyStatus EXCEPT ![c] = "ready"]
    /\ op' = [op EXCEPT ![c] = NoOp]
    /\ effectDue' = [effectDue EXCEPT ![c] = TRUE]

\* handleKeyReady: setKey, setKeyStatus('ready'); the key change re-runs
\* the checkKeyStatus effect, which finds the key held.
handleKeyReady(c, newKey) ==
    LET r == checkKeyStatus(newKey, "ready", session[c])
    IN /\ key' = [key EXCEPT ![c] = newKey]
       /\ keyStatus' = [keyStatus EXCEPT ![c] = r.status]
       /\ op' = [op EXCEPT ![c] = r.op]
       /\ effectDue' = [effectDue EXCEPT ![c] = r.status = "ready"]

\* A new session on a client: App renders DiaryApp, whose state starts at
\* its initial values and whose mount effect runs checkKeyStatus.
SignIn(c, a) ==
    /\ session[c] = NoSession
    /\ op[c].kind = "none" /\ fetch[c].kind = "none"
    /\ pfetch[c].kind = "none" /\ save[c].kind = "none"
    /\ bio[c].kind = "none"
    /\ ~signingOut[c]
    /\ LET r == checkKeyStatus(key[c], "checking", a)
       IN /\ session' = [session EXCEPT ![c] = a]
          /\ keyStatus' = [keyStatus EXCEPT ![c] = r.status]
          /\ op' = [op EXCEPT ![c] = r.op]
          /\ effectDue' = [effectDue EXCEPT ![c] = r.status = "ready"]
    /\ error' = [error EXCEPT ![c] = Null]
    /\ initLoading' = [initLoading EXCEPT ![c] = FALSE]
    /\ profile' = [profile EXCEPT ![c] = {}]
    /\ entries' = [entries EXCEPT ![c] = <<>>]
    /\ loading' = [loading EXCEPT ![c] = TRUE]
    /\ viewState' = [viewState EXCEPT ![c] = ListView]
    /\ warnings' = [warnings EXCEPT ![c] = 0]
    /\ alerted' = [alerted EXCEPT ![c] = NoAlert]
    /\ UNCHANGED <<profiles, key, signingOut, diaries, nextId, fetch, pfetch,
                   save, issued, bioVars, lookupResult>>

\* The answer of .from('profiles').select('id').eq('id', user)
\* .maybeSingle(): an error, the row, or null when there is none.
maybeSingle(failed, rows) ==
    IF failed THEN "error" ELSE IF rows = {} THEN "null" ELSE "profile"

\* Variant: the error of the lookup is not thrown.
LookupThrows_Never(result) == FALSE

\* if (error) throw error
LookupThrows(result) == result = "error"

\* The profile lookup of checkKeyStatus answers: an error goes to the
\* catch, which signs out; otherwise the row decides the status.
LookupDone(c) ==
    /\ op[c].kind = "lookup"
    /\ op' = [op EXCEPT ![c] = NoOp]
    /\ \E failed \in BOOLEAN :
         LET result == maybeSingle(failed, RowsOf(profiles, op[c].user))
         IN IF ~Mounted(c)
            THEN UNCHANGED <<keyStatus, signingOut, lookupResult>>
            ELSE /\ lookupResult' = [lookupResult EXCEPT ![c] = result]
                 /\ IF LookupThrows(result)
                    THEN /\ signingOut' = [signingOut EXCEPT ![c] = TRUE]
                         /\ UNCHANGED keyStatus
                    ELSE /\ keyStatus' = [keyStatus EXCEPT ![c] =
                                LookupStatus(result = "profile")]
                         /\ UNCHANGED signingOut
    /\ UNCHANGED <<profiles, session, key, error, initLoading, profile,
                   effectDue, contentVars>>
    /\ UNCHANGED bioVars

\* InitializeEncryption.handleSubmit up to the insert request: the length
\* check, generateSalt, deriveKey and the key check.
InitSubmit(c, password) ==
    /\ Mounted(c)
    /\ keyStatus[c] = "needed"
    /\ ~initLoading[c]
    /\ IF Len(password) < MinPasswordLength
       THEN /\ error' = [error EXCEPT ![c] = "Password must be at least 6 characters long."]
            /\ UNCHANGED <<op, initLoading>>
       ELSE \E salt \in Salts, iv \in Ivs, cryptoOk \in BOOLEAN :
              IF cryptoOk
              THEN LET k == deriveKey(password, salt)
                       check == encrypt(k, KEY_CHECK_STRING, iv)
                   IN /\ op' = [op EXCEPT ![c] =
                              [kind |-> "insert", user |-> session[c], key |-> k,
                               row |-> NewProfileRow(session[c], salt, check)]]
                      /\ initLoading' = [initLoading EXCEPT ![c] = TRUE]
                      /\ error' = [error EXCEPT ![c] = Null]
              ELSE /\ error' = [error EXCEPT ![c] = "setup failed"]
                   /\ UNCHANGED <<op, initLoading>>
    /\ UNCHANGED <<profiles, session, key, keyStatus, signingOut, profile,
                   effectDue, contentVars>>
    /\ UNCHANGED <<bioVars, lookupResult>>

\* Variant: the insert's error is not looked at.
InsertError_Ignored(outcome, before, after) == FALSE

\* Variant: only a request that did not come back answered counts as an
\* error; a row the table refused does not.
InsertError_TransportOnly(outcome, before, after) == outcome # "ok"

\* insertError of handleSubmit: set when the request did not come back
\* answered, or the table refused the row.
InsertError(outcome, before, after) == outcome # "ok" \/ after = before

\* The insert of handleSubmit answers: onSuccess(key) only without error.
InsertDone(c) ==
    /\ op[c].kind = "insert"
    /\ \E outcome \in Outcomes :
         LET table == IF outcome = "refused" THEN profiles
                      ELSE SetupInsert(profiles, op[c].row)
             insertError == InsertError(outcome, profiles, table)
         IN /\ profiles' = table
            /\ IF ~Mounted(c)
               THEN /\ op' = [op EXCEPT ![c] = NoOp]
                    /\ UNCHANGED <<key, keyStatus, error, initLoading, effectDue>>
               ELSE /\ initLoading' = [initLoading EXCEPT ![c] = FALSE]
                    /\ IF insertError
                       THEN /\ error' = [error EXCEPT ![c] = "setup failed"]
                            /\ op' = [op EXCEPT ![c] = NoOp]
                            /\ UNCHANGED <<key, keyStatus, effectDue>>
                       ELSE /\ handleKeyReady(c, op[c].key)
                            /\ UNCHANGED error
    /\ UNCHANGED <<session, signingOut, profile, contentVars>>
    /\ UNCHANGED <<bioVars, lookupResult>>

\* PasswordPrompt: the password is submitted for deriveAndVerifyKey.
PromptSubmit(c, password) ==
    /\ Mounted(c)
    /\ keyStatus[c] = "reauth"
    /\ op[c].kind = "none"
    /\ bio[c].kind = "none"
    /\ op' = [op EXCEPT ![c] =
                [kind |-> "verify", user |-> session[c], pw |-> password]]
    /\ error' = [error EXCEPT ![c] = Null]
    /\ UNCHANGED <<profiles, session, key, keyStatus, signingOut,
                   initLoading, profile, effectDue, contentVars>>
    /\ UNCHANGED <<bioVars, lookupResult>>

\* deriveAndVerifyKey answers: onSuccess(key) when the key check verifies,
\* otherwise the authentication failure is shown.
PromptDone(c) ==
    /\ op[c].kind = "verify"
    /\ \E failed \in BOOLEAN :
         LET rows == IF failed THEN {} ELSE RowsOf(profiles, op[c].user)
             k == deriveAndVerifyKey(op[c].pw, rows)
         IN IF ~Mounted(c)
            THEN /\ op' = [op EXCEPT ![c] = NoOp]
                 /\ UNCHANGED <<key, keyStatus, error, effectDue>>
            ELSE IF k # NoKey
            THEN /\ handleKeyReady(c, k)
                 /\ UNCHANGED error
            ELSE /\ error' = [error EXCEPT ![c] = "Authentication failed"]
                 /\ op' = [op EXCEPT ![c] = NoOp]
                 /\ UNCHANGED <<key, keyStatus, effectDue>>
    /\ UNCHANGED <<profiles, session, signingOut, initLoading, profile,
                   contentVars>>
    /\ UNCHANGED <<bioVars, lookupResult>>

\* Variant: handleSignOut also calls setKey(null).
handleSignOut_ClearsKey(c) ==
    /\ Mounted(c)
    /\ keyStatus[c] = "ready"
    /\ ~signingOut[c]
    /\ signingOut' = [signingOut EXCEPT ![c] = TRUE]
    /\ key' = [key EXCEPT ![c] = NoKey]
    /\ UNCHANGED <<profiles, session, keyStatus, op, error,
                   initLoading, profile, effectDue, contentVars>>
    /\ UNCHANGED <<bioVars, lookupResult>>

\* handleSignOut, reachable from the header, which only 'ready' renders.
handleSignOut(c) ==
    /\ Mounted(c)
    /\ keyStatus[c] = "ready"
    /\ ~signingOut[c]
    /\ signingOut' = [signingOut EXCEPT ![c] = TRUE]
    /\ UNCHANGED <<profiles, session, key, keyStatus, op, error,
                   initLoading, profile, effectDue, contentVars>>
    /\ UNCHANGED <<bioVars, lookupResult>>

\* supabase.auth.signOut() fails: the session continues.
SignOutFailed(c) ==
    /\ signingOut[c]
    /\ signingOut' = [signingOut EXCEPT ![c] = FALSE]
    /\ UNCHANGED <<profiles, session, key, keyStatus, op, error,
                   initLoading, profile, effectDue, contentVars>>
    /\ UNCHANGED <<bioVars, lookupResult>>

\* Variant: the key outlives the session.
SessionEnd_KeepsKey(c) ==
    /\ Mounted(c)
    /\ session' = [session EXCEPT ![c] = NoSession]
    /\ signingOut' = [signingOut EXCEPT ![c] = FALSE]
    /\ keyStatus' = [keyStatus EXCEPT ![c] = "checking"]
    /\ error' = [error EXCEPT ![c] = Null]
    /\ initLoading' = [initLoading EXCEPT ![c] = FALSE]
    /\ profile' = [profile EXCEPT ![c] = {}]
    /\ effectDue' = [effectDue EXCEPT ![c] = FALSE]
    /\ entries' = [entries EXCEPT ![c] = <<>>]
    /\ loading' = [loading EXCEPT ![c] = TRUE]
    /\ viewState' = [viewState EXCEPT ![c] = ListView]
    /\ warnings' = [warnings EXCEPT ![c] = 0]
    /\ alerted' = [alerted EXCEPT ![c] = NoAlert]
    /\ bioResult' = [bioResult EXCEPT ![c] = NotEnded]
    /\ bioSupport' = [bioSupport EXCEPT ![c] = NotAsked]
    /\ lookupResult' = [lookupResult EXCEPT ![c] = "none"]
    /\ UNCHANGED <<profiles, key, op, diaries, nextId, fetch, pfetch, save,
                   issued, bio, bioRecord>>

\* The session ends (sign-out completed, or the session was revoked or
\* expired): DiaryApp is unmounted, its state is gone (shown here as the
\* initial values) and the session's key is discarded. Requests in flight
\* still answer, into an unmounted component.
SessionEnd(c) ==
    /\ Mounted(c)
    /\ session' = [session EXCEPT ![c] = NoSession]
    /\ key' = [key EXCEPT ![c] = NoKey]
    /\ signingOut' = [signingOut EXCEPT ![c] = FALSE]
    /\ keyStatus' = [keyStatus EXCEPT ![c] = "checking"]
    /\ error' = [error EXCEPT ![c] = Null]
    /\ initLoading' = [initLoading EXCEPT ![c] = FALSE]
    /\ profile' = [profile EXCEPT ![c] = {}]
    /\ effectDue' = [effectDue EXCEPT ![c] = FALSE]
    /\ entries' = [entries EXCEPT ![c] = <<>>]
    /\ loading' = [loading EXCEPT ![c] = TRUE]
    /\ viewState' = [viewState EXCEPT ![c] = ListView]
    /\ warnings' = [warnings EXCEPT ![c] = 0]
    /\ alerted' = [alerted EXCEPT ![c] = NoAlert]
    /\ bioResult' = [bioResult EXCEPT ![c] = NotEnded]
    /\ bioSupport' = [bioSupport EXCEPT ![c] = NotAsked]
    /\ lookupResult' = [lookupResult EXCEPT ![c] = "none"]
    /\ UNCHANGED <<profiles, op, diaries, nextId, fetch, pfetch, save, issued,
                   bio, bioRecord>>

\* handleUpdateProfile: update(updates).eq('id', user).select().single()
handleUpdateProfile(c, updates) ==
    /\ Mounted(c)
    /\ keyStatus[c] = "ready"
    /\ \E outcome \in Outcomes :
         LET table == IF outcome = "refused" THEN profiles
                      ELSE ProfilesUpdate(profiles, session[c], updates)
             data == RowsOf(table, session[c])
         IN /\ profiles' = table
            /\ profile' = IF outcome = "ok" /\ data # {}
                          THEN [profile EXCEPT ![c] = data]
                          ELSE profile
    /\ UNCHANGED <<session, key, keyStatus, op, signingOut, error, initLoading,
                   effectDue, contentVars>>
    /\ UNCHANGED <<bioVars, lookupResult>>


\* ------------------------------------------------------------ lib/webauthn
\* Ids the authenticator gives to new credentials, and the salts
\* registerBiometric can draw.
CredentialIds == {1, 2}
BioSalts == {1, 2}

\* What the calls throw: the messages of their own Errors, and the
\* rejections they let through.
ErrNotSupported == "WebAuthn not supported"
ErrCreateFailed == "Failed to create credential"
ErrNoPrf == "Authenticator does not support PRF extension."
ErrAuthFailed == "Authentication failed"
ErrNoPrfKey == "Could not retrieve PRF key from authenticator."
\* navigator.credentials.create / get rejecting: the prompt was cancelled
\* or timed out, or the credential is not on this device.
NotAllowedError == "NotAllowedError"
\* importKey, exportKey or encrypt rejecting while wrapping.
OperationError == "OperationError"
\* decrypt rejecting: the ciphertext does not open under this key and iv.
IntegrityError == "IntegrityError"

\* Answers of the authenticator to one request: a rejection, null, or a
\* credential / assertion, whose extension results carry the PRF output
\* or not.
CreateAnswers ==
    {[kind |-> "reject", cred |-> 0, prf |-> FALSE],
     [kind |-> "null", cred |-> 0, prf |-> FALSE]}
    \cup [kind : {"ok"}, cred : CredentialIds, prf : BOOLEAN]

GetAnswers ==
    {[kind |-> "reject", cred |-> 0, prf |-> FALSE],
     [kind |-> "null", cred |-> 0, prf |-> FALSE]}
    \cup [kind : {"ok"}, cred : {0}, prf : BOOLEAN]

\* The request is with the authenticator: its promise has not settled.
Awaited == [kind |-> "awaited", cred |-> 0, prf |-> FALSE]

Failure(call, err, decrypted) ==
    [call |-> call, ok |-> FALSE, err |-> err, decrypted |-> decrypted,
     key |-> NoKey, record |-> NoRecord]

\* Variant: the record keeps the salt of an earlier draw, not the one the
\* PRF was evaluated with.
registerBiometricWrap_OtherSalt(masterKey, cred, salt, iv, cryptoOk) ==
    LET wrapped == encrypt(WrappingKey(PRF(cred, salt)), exportKey(masterKey), iv)
    IN [call |-> "register", ok |-> TRUE, err |-> Null, decrypted |-> FALSE,
        key |-> NoKey,
        record |-> [credentialId |-> encodeBase64(cred),
                    salt |-> encodeBase64(CHOOSE x \in BioSalts : x # salt),
                    encryptedKey |-> wrapped.data, iv |-> wrapped.iv]]

\* Variant: the exported master key is returned next to its wrapped form.
registerBiometricWrap_ReturnsKeyString(masterKey, cred, salt, iv, cryptoOk) ==
    IF ~cryptoOk THEN Failure("register", OperationError, FALSE)
    ELSE LET wrapped == encrypt(WrappingKey(PRF(cred, salt)),
                                exportKey(masterKey), iv)
         IN [call |-> "register", ok |-> TRUE, err |-> Null,
             decrypted |-> FALSE, key |-> NoKey,
             record |-> [credentialId |-> encodeBase64(cred),
                         salt |-> encodeBase64(salt),
                         encryptedKey |-> wrapped.data, iv |-> wrapped.iv,
                         masterKeyString |-> exportKey(masterKey)]]

\* Variant: a failing wrap still returns the credential id and salt, with
\* no wrapped key.
registerBiometricWrap_PartialOnFailure(masterKey, cred, salt, iv, cryptoOk) ==
    LET wrapped == encrypt(WrappingKey(PRF(cred, salt)), exportKey(masterKey), iv)
    IN [call |-> "register", ok |-> TRUE, err |-> Null, decrypted |-> FALSE,
        key |-> NoKey,
        record |-> [credentialId |-> encodeBase64(cred),
                    salt |-> encodeBase64(salt),
                    encryptedKey |-> IF cryptoOk THEN wrapped.data
                                     ELSE NoRecord.encryptedKey,
                    iv |-> IF cryptoOk THEN wrapped.iv ELSE NullIv]]

\* registerBiometric from "4. Derive Wrapping Key" on, with the PRF output
\* of credential cred for salt: import the wrapping key, export and
\* encrypt the master key, return the BiometricData.
registerBiometricWrap(masterKey, cred, salt, iv, cryptoOk) ==
    IF ~cryptoOk THEN Failure("register", OperationError, FALSE)
    ELSE LET wrapped == encrypt(WrappingKey(PRF(cred, salt)),
                                exportKey(masterKey), iv)
         IN [call |-> "register", ok |-> TRUE, err |-> Null,
             decrypted |-> FALSE, key |-> NoKey,
             record |-> [credentialId |-> encodeBase64(cred),
                         salt |-> encodeBase64(salt),
                         encryptedKey |-> wrapped.data, iv |-> wrapped.iv]]

\* Variant: without a PRF output the call goes on with the wrapped key.
unlockBiometric_IgnoresMissingPrf(data, answer) ==
    LET salt == decodeBase64(data.salt)
        cred == decodeBase64(data.credentialId)
        d == decrypt(WrappingKey(PRF(cred, salt)), data.encryptedKey, data.iv)
    IN IF answer.kind = "reject" THEN Failure("unlock", NotAllowedError, FALSE)
       ELSE IF answer.kind = "null" THEN Failure("unlock", ErrAuthFailed, FALSE)
       ELSE IF ~d.ok THEN Failure("unlock", IntegrityError, TRUE)
       ELSE [call |-> "unlock", ok |-> TRUE, err |-> Null, decrypted |-> TRUE,
             key |-> importKey(d.pt), record |-> NoRecord]

\* Variant: a missing assertion is taken for one without PRF results.
unlockBiometric_NullAsNoPrf(data, answer) ==
    LET salt == decodeBase64(data.salt)
        cred == decodeBase64(data.credentialId)
        d == decrypt(WrappingKey(PRF(cred, salt)), data.encryptedKey, data.iv)
    IN IF answer.kind = "reject" THEN Failure("unlock", NotAllowedError, FALSE)
       ELSE IF answer.kind = "null" \/ ~answer.prf
       THEN Failure("unlock", ErrNoPrfKey, FALSE)
       ELSE IF ~d.ok THEN Failure("unlock", IntegrityError, TRUE)
       ELSE [call |-> "unlock", ok |-> TRUE, err |-> Null, decrypted |-> TRUE,
             key |-> importKey(d.pt), record |-> NoRecord]

\* Variant: a missing PRF output is reported as a failed authentication.
unlockBiometric_NoPrfAsAuthFailed(data, answer) ==
    LET salt == decodeBase64(data.salt)
        cred == decodeBase64(data.credentialId)
        d == decrypt(WrappingKey(PRF(cred, salt)), data.encryptedKey, data.iv)
    IN IF answer.kind = "reject" THEN Failure("unlock", NotAllowedError, FALSE)
       ELSE IF answer.kind = "null" \/ ~answer.prf
       THEN Failure("unlock", ErrAuthFailed, FALSE)
       ELSE IF ~d.ok THEN Failure("unlock", IntegrityError, TRUE)
       ELSE [call |-> "unlock", ok |-> TRUE, err |-> Null, decrypted |-> TRUE,
             key |-> importKey(d.pt), record |-> NoRecord]

\* Variant: the wrapped key is not authenticated: whatever the record
\* holds is imported.
unlockBiometric_NoIntegrity(data, answer) ==
    IF answer.kind = "reject" THEN Failure("unlock", NotAllowedError, FALSE)
    ELSE IF answer.kind = "null" THEN Failure("unlock", ErrAuthFailed, FALSE)
    ELSE IF ~answer.prf THEN Failure("unlock", ErrNoPrfKey, FALSE)
    ELSE [call |-> "unlock", ok |-> TRUE, err |-> Null, decrypted |-> TRUE,
          key |-> importKey(data.encryptedKey.pt), record |-> NoRecord]

\* unlockBiometric, given the authenticator's answer to its assertion
\* request.
unlockBiometric(data, answer) ==
    LET salt == decodeBase64(data.salt)
        cred == decodeBase64(data.credentialId)
        d == decrypt(WrappingKey(PRF(cred, salt)), data.encryptedKey, data.iv)
    IN IF answer.kind = "reject" THEN Failure("unlock", NotAllowedError, FALSE)
       ELSE IF answer.kind = "null" THEN Failure("unlock", ErrAuthFailed, FALSE)
       ELSE IF ~answer.prf THEN Failure("unlock", ErrNoPrfKey, FALSE)
       ELSE IF ~d.ok THEN Failure("unlock", IntegrityError, TRUE)
       ELSE [call |-> "unlock", ok |-> TRUE, err |-> Null, decrypted |-> TRUE,
             key |-> importKey(d.pt), record |-> NoRecord]

\* The answer of the authenticator as the extension results show it.
Answered(answer) ==
    IF answer.kind # "ok" THEN answer.kind
    ELSE IF answer.prf THEN "prf" ELSE "noPrf"

\* The call goes on to another request, or ends with a result.
GoesOn(call) == [next |-> call, result |-> NoResult]
EndsWith(result) == [next |-> NoCall, result |-> result]

\* Variant: the assertion is requested whether or not the creation gave
\* the PRF output.
registerBiometricCreate_AlwaysAsserts(call, answer, iv, cryptoOk) ==
    IF answer.kind = "reject"
    THEN EndsWith(Failure("register", NotAllowedError, FALSE))
    ELSE IF answer.kind = "null"
    THEN EndsWith(Failure("register", ErrCreateFailed, FALSE))
    ELSE GoesOn([call EXCEPT !.kind = "assert", !.cred = answer.cred,
                             !.answer = Awaited])

\* Variant: the assertion evaluates the PRF on a salt drawn anew.
registerBiometricCreate_AssertsOtherSalt(call, answer, iv, cryptoOk) ==
    IF answer.kind = "reject"
    THEN EndsWith(Failure("register", NotAllowedError, FALSE))
    ELSE IF answer.kind = "null"
    THEN EndsWith(Failure("register", ErrCreateFailed, FALSE))
    ELSE IF answer.prf
    THEN EndsWith(registerBiometricWrap(call.masterKey, answer.cred,
                                        call.salt, iv, cryptoOk))
    ELSE GoesOn([call EXCEPT !.kind = "assert", !.cred = answer.cred,
                             !.salt = CHOOSE x \in BioSalts : x # call.salt,
                             !.answer = Awaited])

\* Variant: a rejected creation is tried again.
registerBiometricCreate_RetriesOnReject(call, answer, iv, cryptoOk) ==
    IF answer.kind = "reject" THEN GoesOn([call EXCEPT !.answer = Awaited])
    ELSE IF answer.kind = "null"
    THEN EndsWith(Failure("register", ErrCreateFailed, FALSE))
    ELSE IF answer.prf
    THEN EndsWith(registerBiometricWrap(call.masterKey, answer.cred,
                                        call.salt, iv, cryptoOk))
    ELSE GoesOn([call EXCEPT !.kind = "assert", !.cred = answer.cred,
                             !.answer = Awaited])

\* registerBiometric after navigator.credentials.create answered:
\* Branch A wraps with the PRF output of the creation; otherwise Branch B
\* asks for an assertion of the new credential.
registerBiometricCreate(call, answer, iv, cryptoOk) ==
    IF answer.kind = "reject"
    THEN EndsWith(Failure("register", NotAllowedError, FALSE))
    ELSE IF answer.kind = "null"
    THEN EndsWith(Failure("register", ErrCreateFailed, FALSE))
    ELSE IF answer.prf
    THEN EndsWith(registerBiometricWrap(call.masterKey, answer.cred,
                                        call.salt, iv, cryptoOk))
    ELSE GoesOn([call EXCEPT !.kind = "assert", !.cred = answer.cred,
                             !.answer = Awaited])

\* Variant: the check for a missing PRF output is left out; the wrapping
\* key is imported from whatever the results hold.
registerBiometricAssert_WrapsWithoutPrf(call, answer, iv, cryptoOk) ==
    IF answer.kind = "reject"
    THEN EndsWith(Failure("register", NotAllowedError, FALSE))
    ELSE EndsWith(registerBiometricWrap(call.masterKey, call.cred, call.salt,
                                        iv, cryptoOk))

\* registerBiometric after the assertion of Branch B answered.
registerBiometricAssert(call, answer, iv, cryptoOk) ==
    IF answer.kind = "reject"
    THEN EndsWith(Failure("register", NotAllowedError, FALSE))
    ELSE IF answer.kind = "null" \/ ~answer.prf
    THEN EndsWith(Failure("register", ErrNoPrf, FALSE))
    ELSE EndsWith(registerBiometricWrap(call.masterKey, call.cred, call.salt,
                                        iv, cryptoOk))

\* A request of registerBiometric was answered: the call goes on, or it
\* ends and the caller keeps the returned BiometricData in place of the
\* one it had; a failure leaves that alone.
RegisterStep(c, outcome, stage, answered) ==
    /\ bio' = [bio EXCEPT ![c] = outcome.next]
    /\ UNCHANGED <<bioSupport, lookupResult>>
    /\ IF outcome.next.kind # "none"
       THEN UNCHANGED <<bioResult, bioRecord>>
       ELSE /\ bioResult' =
                 IF Mounted(c)
                 THEN [bioResult EXCEPT ![c] =
                         Ended(outcome.result, stage, answered)]
                 ELSE bioResult
            /\ bioRecord' =
                 IF outcome.result.ok
                 THEN [bioRecord EXCEPT ![c] = outcome.result.record]
                 ELSE bioRecord

\* Biometric unlock is enabled from the unlocked app: registerBiometric up
\* to navigator.credentials.create.
RegisterStart(c, salt) ==
    /\ Mounted(c)
    /\ keyStatus[c] = "ready" /\ key[c] # NoKey
    /\ bio[c].kind = "none"
    /\ \E supported \in BOOLEAN :
         IF ~supported
         THEN RegisterStep(c, EndsWith(Failure("register", ErrNotSupported,
                                               FALSE)), "start", "none")
         ELSE RegisterStep(c, GoesOn([kind |-> "create", masterKey |-> key[c],
                                      salt |-> salt, cred |-> 0,
                                      data |-> NoRecord, answer |-> Awaited]),
                           "start", "none")
    /\ UNCHANGED <<profiles, session, key, keyStatus, op, signingOut, error,
                   initLoading, profile, effectDue, contentVars>>

\* The authenticator settles the request it was given: the user confirms,
\* cancels, or the device answers by itself.
Authenticator(c) ==
    /\ bio[c].kind # "none"
    /\ bio[c].answer = Awaited
    /\ \E answer \in IF bio[c].kind = "create" THEN CreateAnswers
                     ELSE GetAnswers :
         bio' = [bio EXCEPT ![c].answer = answer]
    /\ UNCHANGED <<profiles, session, key, keyStatus, op, signingOut, error,
                   initLoading, profile, effectDue, contentVars, bioResult,
                   bioRecord, bioSupport, lookupResult>>

\* registerBiometric resumes after navigator.credentials.create.
CreateDone(c) ==
    /\ bio[c].kind = "create"
    /\ bio[c].answer # Awaited
    /\ \E iv \in Ivs, cryptoOk \in BOOLEAN :
         RegisterStep(c, registerBiometricCreate(bio[c], bio[c].answer, iv,
                                                 cryptoOk),
                      "create", Answered(bio[c].answer))
    /\ UNCHANGED <<profiles, session, key, keyStatus, op, signingOut, error,
                   initLoading, profile, effectDue, contentVars>>

\* registerBiometric resumes after the assertion of Branch B.
AssertDone(c) ==
    /\ bio[c].kind = "assert"
    /\ bio[c].answer # Awaited
    /\ \E iv \in Ivs, cryptoOk \in BOOLEAN :
         RegisterStep(c, registerBiometricAssert(bio[c], bio[c].answer, iv,
                                                 cryptoOk),
                      "assert", Answered(bio[c].answer))
    /\ UNCHANGED <<profiles, session, key, keyStatus, op, signingOut, error,
                   initLoading, profile, effectDue, contentVars>>

\* What PublicKeyCredential.isUserVerifyingPlatformAuthenticatorAvailable()
\* does when it is called: it resolves true or false, or it rejects.
AvailabilityAnswers == {"true", "false", "throws"}

\* Variant: the availability query is awaited without the try/catch.
isBiometricSupported_NoCatch(api, query) ==
    IF ~api THEN [settled |-> "resolved", value |-> FALSE]
    ELSE IF query = "throws" THEN [settled |-> "rejected", value |-> FALSE]
    ELSE [settled |-> "resolved", value |-> query = "true"]

\* isBiometricSupported: false without the API (IS_SUPPORTED), false when
\* the availability query throws, the platform's answer otherwise.
isBiometricSupported(api, query) ==
    IF ~api THEN [settled |-> "resolved", value |-> FALSE]
    ELSE IF query = "throws" THEN [settled |-> "resolved", value |-> FALSE]
    ELSE [settled |-> "resolved", value |-> query = "true"]

\* The app asks whether to offer biometric unlock.
SupportCheck(c) ==
    /\ Mounted(c)
    /\ \E api \in BOOLEAN, query \in AvailabilityAnswers :
         LET r == isBiometricSupported(api, query)
         IN bioSupport' = [bioSupport EXCEPT ![c] =
                            [settled |-> r.settled, value |-> r.value,
                             api |-> api, query |-> query]]
    /\ UNCHANGED <<profiles, session, key, keyStatus, op, signingOut, error,
                   initLoading, profile, effectDue, contentVars, bio,
                   bioResult, bioRecord, lookupResult>>

\* PasswordPrompt offers biometric unlock when the device keeps a
\* BiometricData: unlockBiometric up to navigator.credentials.get.
UnlockStart(c) ==
    /\ Mounted(c)
    /\ keyStatus[c] = "reauth"
    /\ op[c].kind = "none" /\ bio[c].kind = "none"
    /\ bioRecord[c] # NoRecord
    /\ bio' = [bio EXCEPT ![c] =
                [kind |-> "unlock", masterKey |-> NoKey, salt |-> NullSalt,
                 cred |-> 0, data |-> bioRecord[c], answer |-> Awaited]]
    /\ bioResult' = [bioResult EXCEPT ![c] = NotEnded]
    /\ UNCHANGED <<profiles, session, key, keyStatus, op, signingOut, error,
                   initLoading, profile, effectDue, contentVars, bioRecord,
                   bioSupport, lookupResult>>

\* unlockBiometric resumes after its assertion; PasswordPrompt calls
\* onSuccess(key) when the call returns a key and shows the failure
\* otherwise.
UnlockDone(c) ==
    /\ bio[c].kind = "unlock"
    /\ bio[c].answer # Awaited
    /\ bio' = [bio EXCEPT ![c] = NoCall]
    /\ LET answer == bio[c].answer
           result == unlockBiometric(bio[c].data, answer)
       IN IF ~Mounted(c)
            THEN UNCHANGED <<key, keyStatus, op, effectDue, bioResult>>
            ELSE /\ bioResult' = [bioResult EXCEPT ![c] =
                                    Ended(result, "unlock", Answered(answer))]
                 /\ IF result.ok
                    THEN handleKeyReady(c, result.key)
                    ELSE UNCHANGED <<key, keyStatus, op, effectDue>>
    /\ UNCHANGED <<profiles, session, signingOut, error, initLoading, profile,
                   contentVars, bioRecord, bioSupport, lookupResult>>

\* The kept BiometricData is damaged: its iv is no longer the one the key
\* was wrapped with.
CorruptRecord(c) ==
    /\ bioRecord[c] # NoRecord
    /\ bioRecord[c].iv \in Ivs
    /\ bioRecord' = [bioRecord EXCEPT ![c].iv = @ + 1]
    /\ UNCHANGED <<profiles, session, key, keyStatus, op, signingOut, error,
                   initLoading, profile, effectDue, contentVars, bio, bioResult,
                   bioSupport, lookupResult>>


\* ------------------------------------------------------- diary content
\* JSON.stringify({title, content}) and JSON.parse of that text.
\* A text is valid JSON or not; JSON.parse of a text that is not throws.
JSONstringify(title, content) ==
    [valid |-> TRUE, json |-> [title |-> title, content |-> content]]
JSONparse(text) == [ok |-> text.valid, value |-> text.json]

\* Variant: the rows come oldest first.
RECURSIVE OrderDesc_Ascending(_)
OrderDesc_Ascending(rows) ==
    IF rows = {} THEN <<>>
    ELSE LET r == CHOOSE x \in rows : \A y \in rows : x.created_at <= y.created_at
         IN <<r>> \o OrderDesc_Ascending(rows \ {r})

\* .order('created_at', { ascending: false }): the rows as a list, newest
\* first.
RECURSIVE OrderDesc(_)
OrderDesc(rows) ==
    IF rows = {} THEN <<>>
    ELSE LET r == CHOOSE x \in rows : \A y \in rows : y.created_at <= x.created_at
         IN <<r>> \o OrderDesc(rows \ {r})

\* Array.prototype.sort by created_at descending (stable).
RECURSIVE SortDesc(_)
SortDesc(list) ==
    IF list = <<>> THEN <<>>
    ELSE LET e == list[Len(list)]
             front == SortDesc(SubSeq(list, 1, Len(list) - 1))
             before == SelectSeq(front, LAMBDA x : x.created_at >= e.created_at)
             after == SelectSeq(front, LAMBDA x : x.created_at < e.created_at)
         IN before \o <<e>> \o after

\* fetchEntries, one row: the map callback is fulfilled when decrypt and
\* JSON.parse both succeed.
Fulfilled(k, row) ==
    LET d == decrypt(k, row.encrypted_entry, row.iv)
    IN d.ok /\ JSONparse(d.pt).ok

\* Variant: the destructured fields are assigned the wrong way round.
DecryptedEntry_SwapsFields(k, row) ==
    LET p == JSONparse(decrypt(k, row.encrypted_entry, row.iv).pt).value
    IN [id |-> row.id, owner_id |-> row.owner_id, created_at |-> row.created_at,
        title |-> p.content, content |-> p.title]

\* fetchEntries, one row: the entry that decrypt and JSON.parse yield.
DecryptedEntry(k, row) ==
    LET p == JSONparse(decrypt(k, row.encrypted_entry, row.iv).pt).value
    IN [id |-> row.id, owner_id |-> row.owner_id, created_at |-> row.created_at,
        title |-> p.title, content |-> p.content]

\* Variant: Promise.all in place of Promise.allSettled: one rejected row
\* leaves no entry.
DecryptAll_AbortsOnFailure(k, rows) ==
    IF \E i \in DOMAIN rows : ~Fulfilled(k, rows[i]) THEN <<>>
    ELSE [i \in DOMAIN rows |-> DecryptedEntry(k, rows[i])]

\* fetchEntries, after Promise.allSettled: the fulfilled results, in order.
RECURSIVE DecryptAll(_, _)
DecryptAll(k, rows) ==
    IF rows = <<>> THEN <<>>
    ELSE LET row == Head(rows)
         IN (IF Fulfilled(k, row)
             THEN <<DecryptedEntry(k, row)>> ELSE <<>>)
            \o DecryptAll(k, Tail(rows))

EntryIds(list) == {list[i].id : i \in DOMAIN list}

\* The state an encrypt or decrypt call is issued in.
Call(c, name, k) ==
    [call |-> name, mounted |-> Mounted(c), keyStatus |-> keyStatus[c],
     sessionKey |-> key[c], key |-> k]

\* The effect on [fetchEntries, fetchProfile, keyStatus]: once keyStatus is
\* 'ready' it calls fetchEntries (which returns at once without a key) and
\* fetchProfile.
ReadyEffect(c) ==
    /\ Mounted(c)
    /\ effectDue[c]
    /\ effectDue' = [effectDue EXCEPT ![c] = FALSE]
    /\ IF key[c] = NoKey
       THEN UNCHANGED <<fetch, loading, alerted>>
       ELSE /\ fetch' = [fetch EXCEPT ![c] =
                   [kind |-> "query", key |-> key[c], user |-> session[c]]]
            /\ loading' = [loading EXCEPT ![c] = TRUE]
            /\ alerted' = [alerted EXCEPT ![c] = NoAlert]
    /\ pfetch' = [pfetch EXCEPT ![c] = [kind |-> "query", user |-> session[c]]]
    /\ UNCHANGED <<lifecycleVars, profile, diaries, nextId, entries, viewState,
                   save, issued, warnings>>

\* Variant: loading is cleared at the end of the try block only.
FinallyLoading_OnlyOnSuccess(failed) == failed

\* finally { setLoading(false) }: the value of loading after fetchEntries,
\* whether or not the query failed.
FinallyLoading(failed) == FALSE

\* fetchEntries after the diaries query answered.
FetchEntriesDone(c) ==
    /\ fetch[c].kind = "query"
    /\ fetch' = [fetch EXCEPT ![c] = NoOp]
    /\ \E failed \in BOOLEAN :
         LET data == OrderDesc({r \in diaries : r.owner_id = fetch[c].user})
         IN /\ issued' = IF failed \/ data = <<>> THEN issued
                         ELSE [issued EXCEPT ![c] =
                                 @ \cup {Call(c, "decrypt", fetch[c].key)}]
            /\ IF ~Mounted(c)
               THEN UNCHANGED <<entries, loading>>
               ELSE /\ entries' = IF failed THEN entries
                                  ELSE [entries EXCEPT ![c] =
                                          DecryptAll(fetch[c].key, data)]
                    /\ loading' = [loading EXCEPT ![c] = FinallyLoading(failed)]
            /\ warnings' = IF failed THEN warnings
                           ELSE [warnings EXCEPT ![c] =
                                   Len(data) - Len(DecryptAll(fetch[c].key, data))]
            /\ alerted' = IF failed
                          THEN [alerted EXCEPT ![c] = AlertFetchFailed]
                          ELSE alerted
    /\ UNCHANGED <<lifecycleVars, profile, effectDue, diaries, nextId,
                   viewState, pfetch, save>>

\* fetchProfile after the profiles query answered (.single()).
FetchProfileDone(c) ==
    /\ pfetch[c].kind = "query"
    /\ pfetch' = [pfetch EXCEPT ![c] = NoOp]
    /\ \E failed \in BOOLEAN :
         LET data == RowsOf(profiles, pfetch[c].user)
         IN profile' = IF Mounted(c) /\ ~failed /\ data # {}
                       THEN [profile EXCEPT ![c] = data]
                       ELSE profile
    /\ UNCHANGED <<lifecycleVars, effectDue, diaries, nextId, entries, loading,
                   viewState, fetch, save, issued, warnings, alerted>>

\* Header onNewEntry: the editor for a new entry.
onNewEntry(c) ==
    /\ Mounted(c)
    /\ keyStatus[c] = "ready"
    /\ viewState' = [viewState EXCEPT ![c] = [view |-> "new", id |-> NoEntry]]
    /\ UNCHANGED <<lifecycleVars, profile, effectDue, diaries, nextId, entries,
                   loading, fetch, pfetch, save, issued, warnings, alerted>>

\* DiaryList onSelectEntry followed by DiaryEntryView onEdit: the editor
\* for an entry of the list.
onEdit(c, id) ==
    /\ Mounted(c)
    /\ keyStatus[c] = "ready"
    /\ ~loading[c]
    /\ viewState[c].view = "list"
    /\ id \in EntryIds(entries[c])
    /\ viewState' = [viewState EXCEPT ![c] = [view |-> "edit", id |-> id]]
    /\ UNCHANGED <<lifecycleVars, profile, effectDue, diaries, nextId, entries,
                   loading, fetch, pfetch, save, issued, warnings, alerted>>

\* DiaryEditor submits: handleSaveEntry up to its store request.
SaveSubmit(c, title, content) ==
    /\ Mounted(c)
    /\ keyStatus[c] = "ready"
    /\ ~loading[c]
    /\ save[c].kind = "none"
    /\ \/ viewState[c].view = "new" /\ nextId <= MaxRows
       \/ viewState[c].view = "edit" /\ viewState[c].id \in EntryIds(entries[c])
    /\ IF key[c] = NoKey
       THEN /\ alerted' = [alerted EXCEPT ![c] = AlertNoKey]
            /\ UNCHANGED <<save, issued>>
       ELSE \E iv \in Ivs, encrypted \in BOOLEAN :
              /\ issued' = [issued EXCEPT ![c] = @ \cup {Call(c, "encrypt", key[c])}]
              /\ alerted' = [alerted EXCEPT ![c] =
                               IF encrypted THEN NoAlert ELSE AlertSaveFailed]
              /\ save' = IF ~encrypted THEN save
                         ELSE [save EXCEPT ![c] =
                                [kind |-> IF viewState[c].view = "edit"
                                          THEN "update" ELSE "insert",
                                 id |-> viewState[c].id,
                                 user |-> session[c],
                                 cipher |-> encrypt(key[c],
                                              JSONstringify(title, content), iv),
                                 title |-> title, content |-> content]]
    /\ UNCHANGED <<lifecycleVars, profile, effectDue, diaries, nextId, entries,
                   loading, viewState, fetch, pfetch, warnings>>

\* handleSaveEntry after the update or insert answered.
SaveDone(c) ==
    /\ save[c].kind \in {"update", "insert"}
    /\ save' = [save EXCEPT ![c] = NoOp]
    /\ \E outcome \in Outcomes :
         LET r == save[c]
             applied == outcome # "refused"
             row == [id |-> nextId, owner_id |-> r.user,
                     encrypted_entry |-> r.cipher.data, iv |-> r.cipher.iv,
                     created_at |-> nextId]
             done == Mounted(c) /\ ~StoreError(outcome)
         IN /\ alerted' = IF StoreError(outcome)
                          THEN [alerted EXCEPT ![c] = AlertSaveFailed]
                          ELSE alerted
            /\ IF r.kind = "update"
               THEN /\ diaries' =
                         IF ~applied THEN diaries
                         ELSE {IF d.id = r.id /\ d.owner_id = r.user
                               THEN [d EXCEPT !.encrypted_entry = r.cipher.data,
                                              !.iv = r.cipher.iv]
                               ELSE d : d \in diaries}
                    /\ UNCHANGED nextId
                    /\ entries' =
                         IF ~done THEN entries
                         ELSE [entries EXCEPT ![c] =
                                 [i \in DOMAIN @ |->
                                    IF @[i].id = r.id
                                    THEN [@[i] EXCEPT !.title = r.title,
                                                      !.content = r.content]
                                    ELSE @[i]]]
                    /\ viewState' = IF done THEN [viewState EXCEPT ![c] = ListView]
                                    ELSE viewState
               ELSE /\ diaries' = IF applied THEN diaries \cup {row} ELSE diaries
                    /\ nextId' = IF applied THEN nextId + 1 ELSE nextId
                    /\ entries' =
                         IF ~done THEN entries
                         ELSE [entries EXCEPT ![c] =
                                 SortDesc(<<[id |-> row.id, owner_id |-> row.owner_id,
                                             created_at |-> row.created_at,
                                             title |-> r.title,
                                             content |-> r.content]>> \o @)]
                    /\ viewState' = IF done THEN [viewState EXCEPT ![c] = ListView]
                                    ELSE viewState
    /\ UNCHANGED <<lifecycleVars, profile, effectDue, loading, fetch, pfetch,
                   issued, warnings>>

\* DiaryList onSelectEntry: the view of one entry of the list.
onSelectEntry(c, id) ==
    /\ Mounted(c)
    /\ keyStatus[c] = "ready"
    /\ ~loading[c]
    /\ viewState[c].view = "list"
    /\ id \in EntryIds(entries[c])
    /\ viewState' = [viewState EXCEPT ![c] = [view |-> "entry", id |-> id]]
    /\ UNCHANGED <<lifecycleVars, profile, effectDue, diaries, nextId, entries,
                   loading, fetch, pfetch, save, issued, warnings, alerted>>

\* setEntries(prev => prev.filter(entry => entry.id !== id))
WithoutEntry(list, id) == SelectSeq(list, LAMBDA e : e.id # id)

\* handleDeleteEntry up to its store request: nothing happens unless
\* window.confirm is answered with yes.
DeleteRequest(c, confirmed) ==
    IF confirmed
    THEN [kind |-> "delete", id |-> viewState[c].id, user |-> session[c]]
    ELSE save[c]

\* DiaryEntryView onDelete: handleDeleteEntry(viewState.id).
handleDeleteEntry(c) ==
    /\ Mounted(c)
    /\ keyStatus[c] = "ready"
    /\ ~loading[c]
    /\ viewState[c].view = "entry"
    /\ viewState[c].id \in EntryIds(entries[c])
    /\ save[c].kind = "none"
    /\ \E confirmed \in BOOLEAN :
         /\ save' = [save EXCEPT ![c] = DeleteRequest(c, confirmed)]
         /\ alerted' = IF confirmed THEN [alerted EXCEPT ![c] = NoAlert]
                       ELSE alerted
    /\ UNCHANGED <<lifecycleVars, profile, effectDue, diaries, nextId, entries,
                   loading, viewState, fetch, pfetch, issued, warnings>>

\* handleDeleteEntry after the delete answered.
DeleteDone(c) ==
    /\ save[c].kind = "delete"
    /\ save' = [save EXCEPT ![c] = NoOp]
    /\ \E outcome \in Outcomes :
         LET r == save[c]
             applied == outcome # "refused"
             done == Mounted(c) /\ ~StoreError(outcome)
         IN /\ alerted' = IF StoreError(outcome)
                          THEN [alerted EXCEPT ![c] = AlertDeleteFailed]
                          ELSE alerted
            /\ diaries' = IF ~applied THEN diaries
                          ELSE {d \in diaries :
                                  ~(d.id = r.id /\ d.owner_id = r.user)}
            /\ entries' = IF ~done THEN entries
                          ELSE [entries EXCEPT ![c] = WithoutEntry(@, r.id)]
            /\ viewState' = IF done THEN [viewState EXCEPT ![c] = ListView]
                            ELSE viewState
    /\ UNCHANGED <<lifecycleVars, profile, effectDue, nextId, loading, fetch,
                   pfetch, issued, warnings>>

Next ==
    \/ \E c \in Clients, a \in Accounts : SignIn(c, a)
    \/ \E c \in Clients : LookupDone(c)
    \/ \E c \in Clients, p \in Passwords : InitSubmit(c, p)
    \/ \E c \in Clients : InsertDone(c)
    \/ \E c \in Clients, p \in Passwords : PromptSubmit(c, p)
    \/ \E c \in Clients : PromptDone(c)
    \/ \E c \in Clients : handleSignOut(c)
    \/ \E c \in Clients : SignOutFailed(c)
    \/ \E c \in Clients : SessionEnd(c)
    \/ \E c \in Clients, u \in ProfileUpdates : handleUpdateProfile(c, u)

\* The key lifecycle and the profile store, for all clients.
Spec == Init /\ [][Next]_vars

\* One client: the key lifecycle together with the diary content.
ContentClients == {1}

NextContent ==
    \/ \E c \in ContentClients, a \in Accounts : SignIn(c, a)
    \/ \E c \in ContentClients : LookupDone(c)
    \/ \E c \in ContentClients, p \in Passwords : InitSubmit(c, p)
    \/ \E c \in ContentClients : InsertDone(c)
    \/ \E c \in ContentClients, p \in Passwords : PromptSubmit(c, p)
    \/ \E c \in ContentClients : PromptDone(c)
    \/ \E c \in ContentClients : handleSignOut(c)
    \/ \E c \in ContentClients : SignOutFailed(c)
    \/ \E c \in ContentClients : SessionEnd(c)
    \/ \E c \in ContentClients : ReadyEffect(c)
    \/ \E c \in ContentClients : FetchEntriesDone(c)
    \/ \E c \in ContentClients : FetchProfileDone(c)
    \/ \E c \in ContentClients : onNewEntry(c)
    \/ \E c \in ContentClients, id \in 1..MaxRows : onEdit(c, id)
    \/ \E c \in ContentClients, t \in Titles, b \in Bodies : SaveSubmit(c, t, b)
    \/ \E c \in ContentClients : SaveDone(c)

SpecContent == Init /\ [][NextContent]_vars

\* One client: the key lifecycle and the diary content, with entries
\* viewed and deleted.
NextList ==
    \/ NextContent
    \/ \E c \in ContentClients, id \in 1..MaxRows : onSelectEntry(c, id)
    \/ \E c \in ContentClients : handleDeleteEntry(c)
    \/ \E c \in ContentClients : DeleteDone(c)

SpecList == Init /\ [][NextList]_vars

\* The session has begun to write diary entries; it has begun to set up
\* biometric unlock.
DiaryInUse(c) ==
    nextId > 1 \/ save[c].kind # "none" \/ viewState[c] # ListView
BiometricInUse(c) ==
    bio[c].kind # "none" \/ bioResult[c] # NotEnded \/ bioRecord[c] # NoRecord

\* One client, one session of a new account from sign-in on: every step
\* that writes a record, to the profile store, to the diary store or to
\* the device. The session writes diary entries or sets up biometric
\* unlock, not both: the two touch no common state (diary steps leave bio,
\* bioResult and bioRecord unchanged, biometric steps leave diaries and
\* entries unchanged), so each store is written as it is in a session that
\* does both.
NextStores ==
    \/ \E c \in ContentClients, a \in Accounts : SignIn(c, a)
    \/ \E c \in ContentClients : LookupDone(c)
    \/ \E c \in ContentClients, p \in Passwords : InitSubmit(c, p)
    \/ \E c \in ContentClients : InsertDone(c)
    \/ \E c \in ContentClients : ReadyEffect(c)
    \/ \E c \in ContentClients : FetchEntriesDone(c)
    \/ \E c \in ContentClients : FetchProfileDone(c)
    \/ \E c \in ContentClients : ~BiometricInUse(c) /\ onNewEntry(c)
    \/ \E c \in ContentClients, id \in 1..MaxRows :
          ~BiometricInUse(c) /\ onEdit(c, id)
    \/ \E c \in ContentClients, t \in Titles, b \in Bodies :
          ~BiometricInUse(c) /\ SaveSubmit(c, t, b)
    \/ \E c \in ContentClients : SaveDone(c)
    \/ \E c \in ContentClients, salt \in BioSalts :
          ~DiaryInUse(c) /\ RegisterStart(c, salt)
    \/ \E c \in ContentClients : Authenticator(c)
    \/ \E c \in ContentClients : CreateDone(c)
    \/ \E c \in ContentClients : AssertDone(c)

SpecStores == Init /\ [][NextStores]_vars

\* One client: the key lifecycle together with biometric registration
\* and unlock.
NextBio ==
    \/ \E c \in ContentClients, a \in Accounts : SignIn(c, a)
    \/ \E c \in ContentClients : LookupDone(c)
    \/ \E c \in ContentClients, p \in Passwords : InitSubmit(c, p)
    \/ \E c \in ContentClients : InsertDone(c)
    \/ \E c \in ContentClients, p \in Passwords : PromptSubmit(c, p)
    \/ \E c \in ContentClients : PromptDone(c)
    \/ \E c \in ContentClients : handleSignOut(c)
    \/ \E c \in ContentClients : SignOutFailed(c)
    \/ \E c \in ContentClients : SessionEnd(c)
    \/ \E c \in ContentClients, salt \in BioSalts : RegisterStart(c, salt)
    \/ \E c \in ContentClients : Authenticator(c)
    \/ \E c \in ContentClients : CreateDone(c)
    \/ \E c \in ContentClients : AssertDone(c)
    \/ \E c \in ContentClients : UnlockStart(c)
    \/ \E c \in ContentClients : UnlockDone(c)
    \/ \E c \in ContentClients : CorruptRecord(c)

SpecBio == Init /\ [][NextBio]_vars

\* One client: the key lifecycle, with the app asking whether the device
\* can do biometric unlock.
NextSupport ==
    \/ \E c \in ContentClients, a \in Accounts : SignIn(c, a)
    \/ \E c \in ContentClients : LookupDone(c)
    \/ \E c \in ContentClients, p \in Passwords : InitSubmit(c, p)
    \/ \E c \in ContentClients : InsertDone(c)
    \/ \E c \in ContentClients, p \in Passwords : PromptSubmit(c, p)
    \/ \E c \in ContentClients : PromptDone(c)
    \/ \E c \in ContentClients : handleSignOut(c)
    \/ \E c \in ContentClients : SignOutFailed(c)
    \/ \E c \in ContentClients : SessionEnd(c)
    \/ \E c \in ContentClients : SupportCheck(c)

SpecSupport == Init /\ [][NextSupport]_vars

\* A settled promise resumes the call awaiting it: the continuation is a
\* queued microtask and the event loop runs it. Nothing makes the user or
\* the device answer a prompt.
SpecBioFair ==
    /\ SpecBio
    /\ \A c \in ContentClients :
         /\ WF_vars(CreateDone(c))
         /\ WF_vars(AssertDone(c))
         /\ WF_vars(UnlockDone(c))

\* ------------------------------------------------- a stored batch loaded
\* The account and key of the session that loads the batch.
BatchAccount == CHOOSE a \in Accounts : TRUE
BatchKey == deriveKey("correcthorse", CHOOSE x \in Salts : TRUE)
BatchIv == CHOOSE iv \in Ivs : TRUE

\* What a stored row can be: written by this key; written under another
\* key; with an iv that is not the ciphertext's; or with a payload that
\* is not JSON.
BatchKinds == {"intact", "otherKey", "swappedIv", "unparsable"}

BatchRow(i, kind) ==
    LET own == encrypt(BatchKey, JSONstringify("t1", "b1"), BatchIv)
        other == encrypt(deriveKey("hunter22", CHOOSE x \in Salts : TRUE),
                         JSONstringify("t2", "b1"), BatchIv)
        broken == encrypt(BatchKey,
                          [valid |-> FALSE,
                           json |-> [title |-> Null, content |-> Null]],
                          BatchIv)
        cipher == CASE kind = "otherKey" -> other
                    [] kind = "unparsable" -> broken
                    [] OTHER -> own
    IN [id |-> i, owner_id |-> BatchAccount,
        encrypted_entry |-> cipher.data,
        iv |-> IF kind = "swappedIv" THEN BatchIv + 1 ELSE cipher.iv,
        created_at |-> i]

\* A 'ready' session whose effect has just called fetchEntries and
\* fetchProfile, over a table of up to MaxBatch stored rows.
InitBatch ==
    \E n \in 0..MaxBatch : \E kinds \in [1..n -> BatchKinds] :
       LET me(c) == c \in ContentClients
       IN /\ diaries = {BatchRow(i, kinds[i]) : i \in 1..n}
          /\ nextId = n + 1
          /\ profiles = {NewProfileRow(BatchAccount, BatchKey.salt,
                            encrypt(BatchKey, KEY_CHECK_STRING, BatchIv))}
          /\ session = [c \in Clients |->
                          IF me(c) THEN BatchAccount ELSE NoSession]
          /\ key = [c \in Clients |-> IF me(c) THEN BatchKey ELSE NoKey]
          /\ keyStatus = [c \in Clients |->
                            IF me(c) THEN "ready" ELSE "checking"]
          /\ op = [c \in Clients |-> NoOp]
          /\ signingOut = [c \in Clients |-> FALSE]
          /\ error = [c \in Clients |-> Null]
          /\ initLoading = [c \in Clients |-> FALSE]
          /\ profile = [c \in Clients |-> {}]
          /\ entries = [c \in Clients |-> <<>>]
          /\ loading = [c \in Clients |-> TRUE]
          /\ viewState = [c \in Clients |-> ListView]
          /\ effectDue = [c \in Clients |-> FALSE]
          /\ fetch = [c \in Clients |->
                        IF me(c) THEN [kind |-> "query", key |-> BatchKey,
                                       user |-> BatchAccount]
                        ELSE NoOp]
          /\ pfetch = [c \in Clients |->
                         IF me(c) THEN [kind |-> "query", user |-> BatchAccount]
                         ELSE NoOp]
          /\ save = [c \in Clients |-> NoOp]
          /\ issued = [c \in Clients |-> {}]
          /\ warnings = [c \in Clients |-> 0]
          /\ alerted = [c \in Clients |-> NoAlert]
          /\ bio = [c \in Clients |-> NoCall]
          /\ bioResult = [c \in Clients |-> NotEnded]
          /\ bioRecord = [c \in Clients |-> NoRecord]
          /\ bioSupport = [c \in Clients |-> NotAsked]
          /\ lookupResult = [c \in Clients |->
                               IF me(c) THEN "profile" ELSE "none"]

NextBatch ==
    \/ \E c \in ContentClients : FetchEntriesDone(c)
    \/ \E c \in ContentClients : FetchProfileDone(c)

SpecBatch == InitBatch /\ [][NextBatch]_vars

\* ------------------------------------------------ handleSaveEntry applied
\* handleSaveEntry is a callback over [session.user.id, key, encrypt]: it
\* is applied here to every key it can be given, null included, in the
\* editor of a session that has loaded up to MaxRows entries it wrote.
InitSave ==
    \E n \in 0..MaxRows, held \in {NoKey, BatchKey},
       view \in {[view |-> "new", id |-> NoEntry]}
                \cup {[view |-> "edit", id |-> i] : i \in 1..MaxRows} :
       LET me(c) == c \in ContentClients
           stored == {BatchRow(i, "intact") : i \in 1..n}
       IN /\ view.view = "edit" => view.id \in 1..n
          /\ diaries = stored
          /\ nextId = n + 1
          /\ profiles = {NewProfileRow(BatchAccount, BatchKey.salt,
                            encrypt(BatchKey, KEY_CHECK_STRING, BatchIv))}
          /\ session = [c \in Clients |->
                          IF me(c) THEN BatchAccount ELSE NoSession]
          /\ key = [c \in Clients |-> IF me(c) THEN held ELSE NoKey]
          /\ keyStatus = [c \in Clients |->
                            IF me(c) THEN "ready" ELSE "checking"]
          /\ op = [c \in Clients |-> NoOp]
          /\ signingOut = [c \in Clients |-> FALSE]
          /\ error = [c \in Clients |-> Null]
          /\ initLoading = [c \in Clients |-> FALSE]
          /\ profile = [c \in Clients |-> IF me(c) THEN profiles ELSE {}]
          /\ entries = [c \in Clients |->
                          IF me(c) THEN DecryptAll(BatchKey, OrderDesc(stored))
                          ELSE <<>>]
          /\ loading = [c \in Clients |-> ~me(c)]
          /\ viewState = [c \in Clients |-> IF me(c) THEN view ELSE ListView]
          /\ effectDue = [c \in Clients |-> FALSE]
          /\ fetch = [c \in Clients |-> NoOp]
          /\ pfetch = [c \in Clients |-> NoOp]
          /\ save = [c \in Clients |-> NoOp]
          /\ issued = [c \in Clients |-> {}]
          /\ warnings = [c \in Clients |-> 0]
          /\ alerted = [c \in Clients |-> NoAlert]
          /\ bio = [c \in Clients |-> NoCall]
          /\ bioResult = [c \in Clients |-> NotEnded]
          /\ bioRecord = [c \in Clients |-> NoRecord]
          /\ bioSupport = [c \in Clients |-> NotAsked]
          /\ lookupResult = [c \in Clients |->
                               IF me(c) THEN "profile" ELSE "none"]

NextSave ==
    \/ \E c \in ContentClients : onNewEntry(c)
    \/ \E c \in ContentClients, id \in 1..MaxRows : onEdit(c, id)
    \/ \E c \in ContentClients, t \in Titles, b \in Bodies : SaveSubmit(c, t, b)
    \/ \E c \in ContentClients : SaveDone(c)

SpecSave == InitSave /\ [][NextSave]_vars

\* ------------------------------------------------------ the loading flags
\* The runs that raise a loading flag: first-time setup from a fresh app,
\* and fetchEntries, in a new account and over a stored batch of rows
\* written under the session's key or under another key, which fail to
\* decrypt; sessions end and start again. MaxLoadingBatch bounds the rows
\* of that batch.
MaxLoadingBatch == 2

InitLoading ==
    \/ Init
    \/ /\ InitBatch
       /\ Cardinality(diaries) <= MaxLoadingBatch
       /\ \A r \in diaries :
             r = BatchRow(r.id, "intact") \/ r = BatchRow(r.id, "otherKey")

NextLoading ==
    \/ \E c \in ContentClients, a \in Accounts : SignIn(c, a)
    \/ \E c \in ContentClients : LookupDone(c)
    \/ \E c \in ContentClients, p \in Passwords : InitSubmit(c, p)
    \/ \E c \in ContentClients : InsertDone(c)
    \/ \E c \in ContentClients : SessionEnd(c)
    \/ \E c \in ContentClients : ReadyEffect(c)
    \/ \E c \in ContentClients : FetchEntriesDone(c)
    \/ \E c \in ContentClients : FetchProfileDone(c)

\* A request to the store settles, with its answer or with an error, and
\* the continuation awaiting it then runs (a queued microtask). Nothing is
\* assumed about the user.
SpecLoading ==
    /\ InitLoading /\ [][NextLoading]_vars
    /\ \A c \in ContentClients :
         /\ WF_vars(FetchEntriesDone(c))
         /\ WF_vars(InsertDone(c))

TypeOK ==
    /\ \A c \in Clients : keyStatus[c] \in KeyStatuses
    /\ \A c \in Clients : session[c] \in Accounts \cup {NoSession}

\* ------------------------------------------------------------ properties
\* The stored key-setup material of the account of client c's session.
StoredFor(c) == RowsOf(profiles, session[c])

\* Client c stays in one session over the step.
SameSession(c) == Mounted(c) /\ session'[c] = session[c]

\* C1: in 'reauth', when the answer to a submitted password arrives and the
\* key derived from that password and the stored salt does not verify
\* against the stored key check, keyStatus stays 'reauth', the key stays
\* null, neither table changes and "Authentication failed" is reported;
\* and whenever keyStatus goes from 'reauth' to 'ready', the key then held
\* verifies against the stored key check.
C1_WrongPasswordRejected ==
    [][\A c \in Clients :
         /\ (SameSession(c) /\ op[c].kind = "verify" /\ op'[c].kind # "verify"
             /\ ~\E r \in StoredFor(c) :
                   verifyKeyCheck(deriveKey(op[c].pw, r.salt), r))
            => /\ keyStatus[c] = "reauth" /\ keyStatus'[c] = "reauth"
               /\ key'[c] = NoKey
               /\ profiles' = profiles /\ diaries' = diaries
               /\ error'[c] = "Authentication failed"
         /\ (SameSession(c) /\ keyStatus[c] = "reauth" /\ keyStatus'[c] = "ready")
            => \E r \in StoredFor(c) : verifyKeyCheck(key'[c], r)
      ]_vars

\* A wrong password was answered: the failure is shown in 'reauth' with no
\* key held, while the account's key check is stored.
C1_Witness ==
    \E c \in Clients :
       /\ Mounted(c) /\ keyStatus[c] = "reauth" /\ op[c].kind = "none"
       /\ error[c] = "Authentication failed" /\ key[c] = NoKey
       /\ StoredFor(c) # {}

AllowedTransitions ==
    {<<"checking", "needed">>, <<"checking", "reauth">>,
     <<"needed", "ready">>, <<"reauth", "ready">>}

C3_CallsOnlyWhenReady ==
    \A c \in Clients :
       /\ \A call \in issued[c] :
             call.mounted /\ call.keyStatus = "ready" /\ call.sessionKey # NoKey
       /\ (Mounted(c) /\ keyStatus[c] = "ready") => key[c] # NoKey

\* C4: within a session the key changes only from null, only in the step
\* in which keyStatus becomes 'ready', and that step always sets it.
C4_KeyWriteOnce ==
    [][\A c \in Clients :
         SameSession(c) =>
            /\ key'[c] # key[c] =>
                 /\ key[c] = NoKey
                 /\ keyStatus[c] # "ready" /\ keyStatus'[c] = "ready"
            /\ (keyStatus[c] # "ready" /\ keyStatus'[c] = "ready")
                 => key[c] = NoKey /\ key'[c] # NoKey
      ]_vars

\* A session is 'ready' with its key, and operations have run since: the
\* stored profile carries an updated name and the key still verifies.
C4_Witness ==
    \E c \in Clients :
       /\ Mounted(c) /\ keyStatus[c] = "ready" /\ key[c] # NoKey
       /\ ~signingOut[c]
       /\ \E r \in StoredFor(c) : r.full_name = "Ann" /\ verifyKeyCheck(key[c], r)

C7_LookupDecidesNeededOrReauth ==
    [][\A c \in Clients :
         (SameSession(c) /\ op[c].kind = "lookup" /\ op'[c].kind # "lookup")
         => /\ key[c] = NoKey /\ key'[c] = NoKey
            /\ \/ keyStatus'[c] = "needed" /\ StoredFor(c) = {}
               \/ keyStatus'[c] = "reauth" /\ StoredFor(c) # {}
               \/ keyStatus'[c] = "checking" /\ signingOut'[c]
      ]_vars

\* Both answers have been given: one session is in 'needed', another in
\* 'reauth'.
C7_Witness ==
    \E c1, c2 \in Clients :
       /\ Mounted(c1) /\ keyStatus[c1] = "needed" /\ op[c1].kind = "none"
       /\ Mounted(c2) /\ keyStatus[c2] = "reauth" /\ op[c2].kind = "none"

\* C8: a session leaves 'needed' only to 'ready', holding the derived key,
\* in a step after which the row it submitted is stored and its key check
\* verifies under that key; a setup attempt that ends otherwise leaves
\* keyStatus 'needed' and the key null and shows an error.
C8_ReadyOnlyAfterPersisted ==
    [][\A c \in Clients :
         (SameSession(c) /\ keyStatus[c] = "needed") =>
            /\ keyStatus'[c] \in {"needed", "ready"}
            /\ keyStatus'[c] = "ready" =>
                 /\ op[c].kind = "insert" /\ key'[c] = op[c].key
                 /\ key'[c] # NoKey
                 /\ op[c].row \in profiles'
                 /\ verifyKeyCheck(key'[c], op[c].row)
            /\ keyStatus'[c] = "needed" =>
                 /\ key'[c] = NoKey
                 /\ (initLoading[c] /\ ~initLoading'[c]) => error'[c] # Null
                 /\ (op[c].kind = "none" /\ op'[c].kind = "none"
                     /\ error'[c] # error[c]) => error'[c] # Null
      ]_vars

\* Two sessions of one account set up at the same time: one is 'ready'
\* with the key of the stored row, the other is back in 'needed' with the
\* error shown and no key.
C8_Witness ==
    \E c1, c2 \in Clients :
       /\ Mounted(c1) /\ keyStatus[c1] = "ready"
       /\ \E r \in StoredFor(c1) : verifyKeyCheck(key[c1], r)
       /\ Mounted(c2) /\ session[c2] = session[c1]
       /\ keyStatus[c2] = "needed" /\ error[c2] = "setup failed"
       /\ key[c2] = NoKey /\ ~initLoading[c2]

\* C9: every account has at most one profile row, and in it salt,
\* key_check_value and key_check_iv are all three set or all three null.
C9_SaltAndKeyCheckTogether ==
    \A a \in Accounts :
       /\ Cardinality(RowsOf(profiles, a)) <= 1
       /\ \A r \in RowsOf(profiles, a) :
             \/ r.salt # NullSalt /\ r.key_check_value # NoCipher
                /\ r.key_check_iv # NullIv
             \/ r.salt = NullSalt /\ r.key_check_value = NoCipher
                /\ r.key_check_iv = NullIv

\* The row written by setup has gone through a profile update and is
\* complete, with the updated avatar.
C9_Witness ==
    \E r \in profiles :
       /\ r.avatar_url = "avatars/1.png"
       /\ r.salt # NullSalt /\ r.key_check_value # NoCipher
       /\ r.key_check_iv # NullIv

\* C10: every stored row keeps its salt, key_check_value and key_check_iv
\* over every step, and no step leaves an account with a second row.
C10_KeyMaterialImmutable ==
    [][\A r \in profiles :
         /\ \E r2 \in profiles' :
               /\ r2.id = r.id /\ r2.salt = r.salt
               /\ r2.key_check_value = r.key_check_value
               /\ r2.key_check_iv = r.key_check_iv
         /\ Cardinality(RowsOf(profiles', r.id)) = 1
      ]_vars

\* The stored row has seen a concurrent setup attempt refused and a name
\* update: a session is 'ready' by its key check, another sits in
\* 'needed' with the setup error.
C10_Witness ==
    \E c1, c2 \in Clients :
       /\ Mounted(c1) /\ keyStatus[c1] = "ready"
       /\ \E r \in StoredFor(c1) : r.full_name = "Ann" /\ verifyKeyCheck(key[c1], r)
       /\ Mounted(c2) /\ keyStatus[c2] = "needed" /\ error[c2] = "setup failed"

\* The key first-time setup held when it stored row r: the key its key
\* check was made under.
SetupKey(r) == r.key_check_value.k

\* C11: for every stored row, deriving from the setup password and the
\* stored salt gives the setup key again, and deriveAndVerifyKey with that
\* password returns it; every step from 'reauth' to 'ready' ends holding
\* the setup key, and the answer to a submitted setup password is either
\* that step or the reported failure of the request.
C11_ReauthDerivesSetupKey ==
    [][/\ \A r \in profiles' :
             /\ SetupKey(r) # NoKey
             /\ deriveKey(SetupKey(r).pw, r.salt) = SetupKey(r)
             /\ deriveAndVerifyKey(SetupKey(r).pw, {r}) = SetupKey(r)
       /\ \A c \in Clients :
             /\ (SameSession(c) /\ keyStatus[c] = "reauth"
                 /\ keyStatus'[c] = "ready")
                => \E r \in StoredFor(c) : key'[c] = SetupKey(r)
             /\ (SameSession(c) /\ op[c].kind = "verify"
                 /\ op'[c].kind # "verify"
                 /\ \E r \in StoredFor(c) : op[c].pw = SetupKey(r).pw)
                => \/ /\ keyStatus'[c] = "ready"
                      /\ \E r \in StoredFor(c) :
                            key'[c] = deriveKey(op[c].pw, r.salt)
                   \/ /\ keyStatus'[c] = "reauth"
                      /\ error'[c] = "Authentication failed"
      ]_vars

\* A later session is 'ready' holding the setup key: it has decrypted, with
\* that key, an entry stored before.
C11_Witness ==
    \E c \in Clients :
       /\ Mounted(c) /\ keyStatus[c] = "ready"
       /\ \E r \in StoredFor(c) : key[c] = SetupKey(r)
       /\ \E call \in issued[c] :
             call.call = "decrypt" /\ call.mounted /\ call.key = key[c]
       /\ entries[c] # <<>>

\* C12: when fetchEntries' query is answered with the account's N rows,
\* the entries shown are exactly the rows whose decrypt and parse succeed,
\* one entry per such row, and the failure count is N minus the number of
\* entries shown; a failing row never empties or aborts the batch. (The
\* other outcome is the failure of the query itself, which leaves entries
\* and count as they were.)
C12_BatchFailureIsolated ==
    [][\A c \in Clients :
         (Mounted(c) /\ fetch[c].kind = "query" /\ fetch'[c].kind = "none")
         => LET rows == {r \in diaries : r.owner_id = fetch[c].user}
                good == {r \in rows :
                           LET d == decrypt(fetch[c].key, r.encrypted_entry, r.iv)
                           IN d.ok /\ d.pt.valid}
            IN /\ ~loading'[c]
               /\ \/ entries'[c] = entries[c] /\ warnings'[c] = warnings[c]
                  \/ /\ EntryIds(entries'[c]) = {r.id : r \in good}
                     /\ Len(entries'[c]) = Cardinality(good)
                     /\ warnings'[c] = Cardinality(rows) - Cardinality(good)
      ]_vars

\* A batch of three rows with one that fails was loaded: two entries are
\* shown and the failure count is one.
C12_Witness ==
    \E c \in Clients :
       /\ Mounted(c) /\ fetch[c].kind = "none" /\ ~loading[c]
       /\ Cardinality(diaries) = 3
       /\ Len(entries[c]) = 2 /\ warnings[c] = 1

\* ------------------------------------------------------------ biometric
\* The spec's kinds of failure, by what the code throws or lets through.
AuthenticationFailedError == {ErrAuthFailed, ErrCreateFailed, NotAllowedError}
AuthenticatorCapabilityError == {ErrNoPrf, ErrNoPrfKey, ErrNotSupported}
UnwrapFailedError == {IntegrityError}

\* An assertion of a stable authenticator that carries the PRF output.
StableAssertion == [kind |-> "ok", cred |-> 0, prf |-> TRUE]

\* A registerBiometric call of client c returns in this step.
RegisterReturns(c) ==
    /\ bio[c].kind \in {"create", "assert"}
    /\ bio'[c].kind = "none"
    /\ Mounted(c)

\* An unlockBiometric call of client c returns in this step.
UnlockReturns(c) ==
    /\ bio[c].kind = "unlock"
    /\ bio'[c].kind = "none"
    /\ Mounted(c)

\* C13: the record a registerBiometric call returns, on Branch A and on
\* Branch B, unlocks to the master key the call was given, which is the key
\* the password path verifies for the account; and a biometric unlock that
\* returns a key from such a record puts that key in the session.
C13_BiometricRoundTrip ==
    [][\A c \in ContentClients :
         /\ (RegisterReturns(c) /\ bioResult'[c].result.ok)
            => LET u == unlockBiometric(bioResult'[c].result.record,
                                        StableAssertion)
               IN /\ bioRecord'[c] = bioResult'[c].result.record
                  /\ u.ok
                  /\ u.key = bio[c].masterKey
                  /\ \E r \in StoredFor(c) : u.key = SetupKey(r)
         /\ (UnlockReturns(c) /\ bioResult'[c].answered = "prf"
               /\ bio[c].data.iv = bio[c].data.encryptedKey.iv)
            => /\ bioResult'[c].result.ok
               /\ keyStatus'[c] = "ready"
               /\ key'[c] = bioResult'[c].result.key
               /\ \E r \in StoredFor(c) : key'[c] = SetupKey(r)
      ]_vars

\* C13 witness: a session unlocked by biometrics holds the key that the
\* account's key-check value was made with.
C13_Witness ==
    \E c \in ContentClients :
       /\ keyStatus[c] = "ready"
       /\ bioResult[c].stage = "unlock"
       /\ bioResult[c].result.ok
       /\ key[c] = bioResult[c].result.key
       /\ \E r \in StoredFor(c) : key[c] = SetupKey(r)
       /\ bioRecord[c] # NoRecord

\* C14: when the creation response carried no PRF output and the follow-up
\* assertion carries none either (or is missing), registerBiometric fails
\* with the capability error, returns no record, and leaves the kept record,
\* the profiles table, the session key and keyStatus as they were.
C14_NoPrfFailsRegistration ==
    [][\A c \in ContentClients :
         (RegisterReturns(c) /\ bio[c].kind = "assert"
            /\ Answered(bio[c].answer) \in {"noPrf", "null"})
         => /\ ~bioResult'[c].result.ok
            /\ bioResult'[c].result.err = ErrNoPrf
            /\ bioResult'[c].result.err \in AuthenticatorCapabilityError
            /\ bioResult'[c].result.record = NoRecord
            /\ bioRecord'[c] = bioRecord[c]
            /\ profiles' = profiles
            /\ key'[c] = key[c]
            /\ keyStatus'[c] = keyStatus[c]
      ]_vars

\* C14 witness: a registration ended at the Branch B assertion, which had
\* no PRF output, with the capability error and no record kept.
C14_Witness ==
    \E c \in ContentClients :
       /\ bioResult[c].stage = "assert"
       /\ bioResult[c].answered = "noPrf"
       /\ bioResult[c].result.err = ErrNoPrf
       /\ bioRecord[c] = NoRecord
       /\ keyStatus[c] = "ready"

\* C15: when the assertion of unlockBiometric is declined (the request
\* rejects, or resolves to no assertion), the call fails with an
\* authentication failure, returns no key, and the session keeps none.
C15_DeclinedUnlockFails ==
    [][\A c \in ContentClients :
         (UnlockReturns(c) /\ Answered(bio[c].answer) \in {"reject", "null"})
         => /\ ~bioResult'[c].result.ok
            /\ bioResult'[c].result.err \in AuthenticationFailedError
            /\ bioResult'[c].result.err \notin AuthenticatorCapabilityError
            /\ bioResult'[c].result.key = NoKey
            /\ ~bioResult'[c].result.decrypted
            /\ key'[c] = NoKey
      ]_vars

\* C15 witness: an unlock ended with "Authentication failed" after the
\* request resolved to no assertion, and the session has no key.
C15_Witness ==
    \E c \in ContentClients :
       /\ bioResult[c].stage = "unlock"
       /\ bioResult[c].answered = "null"
       /\ bioResult[c].result.err = ErrAuthFailed
       /\ key[c] = NoKey

\* C16: when the assertion of unlockBiometric arrives without a PRF
\* output, the call fails with the capability error, which is none of the
\* errors of a declined assertion, and the wrapped key is not decrypted.
C16_MissingPrfFailsUnlock ==
    [][\A c \in ContentClients :
         (UnlockReturns(c) /\ Answered(bio[c].answer) = "noPrf")
         => /\ ~bioResult'[c].result.ok
            /\ bioResult'[c].result.err = ErrNoPrfKey
            /\ bioResult'[c].result.err \in AuthenticatorCapabilityError
            /\ bioResult'[c].result.err \notin AuthenticationFailedError
            /\ \A declined \in {a \in GetAnswers : a.kind # "ok"} :
                 unlockBiometric(bio[c].data, declined).err
                   # bioResult'[c].result.err
            /\ ~bioResult'[c].result.decrypted
            /\ bioResult'[c].result.key = NoKey
      ]_vars

\* C16 witness: an unlock ended with the missing-PRF error after an
\* assertion without PRF output, nothing decrypted.
C16_Witness ==
    \E c \in ContentClients :
       /\ bioResult[c].stage = "unlock"
       /\ bioResult[c].answered = "noPrf"
       /\ bioResult[c].result.err = ErrNoPrfKey
       /\ ~bioResult[c].result.decrypted

\* The wrapped key of the record opens under the wrapping key that is
\* derived again from the record's credential and salt.
Unwraps(data) ==
    decrypt(WrappingKey(PRF(decodeBase64(data.credentialId),
                            decodeBase64(data.salt))),
            data.encryptedKey, data.iv).ok

Cancelled(c) == bio[c].kind # "none" /\ bio[c].answer.kind = "reject"

\* C18: a cancelled prompt, at the create step, at the Branch B assertion
\* or at the unlock assertion, ends the pending call: the step that resumes
\* the call leaves none pending and reports an error of the authentication
\* or the capability kind, the session stays where it was with its controls
\* usable, and once the prompt is cancelled the call does end.
C18_CancelResolvesCall ==
    /\ [][\A c \in ContentClients :
            (Cancelled(c) /\ bio'[c] # bio[c])
            => /\ bio'[c] = NoCall
               /\ keyStatus'[c] = keyStatus[c]
               /\ key'[c] = key[c]
               /\ op'[c].kind = "none"
               /\ Mounted(c)
                  => /\ ~bioResult'[c].result.ok
                     /\ bioResult'[c].answered = "reject"
                     /\ bioResult'[c].result.err \in
                          AuthenticationFailedError
                            \cup AuthenticatorCapabilityError
         ]_vars
    /\ \A c \in ContentClients : Cancelled(c) ~> (bio[c] = NoCall)

\* C18 witness: a registration that was cancelled at its Branch B assertion
\* has ended with the platform's rejection, no call is pending and the app
\* is still unlocked.
C18_Witness ==
    \E c \in ContentClients :
       /\ bio[c] = NoCall
       /\ bioResult[c].stage = "assert"
       /\ bioResult[c].answered = "reject"
       /\ bioResult[c].result.err = NotAllowedError
       /\ keyStatus[c] = "ready"

\* The state of a client's lifecycle, the kept record aside.
lifecycleVarsButRecord ==
    <<profiles, session, key, keyStatus, op, signingOut, error, initLoading,
      bio, bioResult, bioSupport, lookupResult>>

\* The four fields of a record are those of one registration: the
\* wrapped key was made under the wrapping key of the record's credential
\* and salt, with the record's iv.
OneRegistration(data) ==
    /\ data.encryptedKey # NoRecord.encryptedKey
    /\ data.encryptedKey.k =
         WrappingKey(PRF(decodeBase64(data.credentialId),
                         decodeBase64(data.salt)))
    /\ data.encryptedKey.iv = data.iv

\* C19: a registerBiometric call that fails, at the create step, at the
\* Branch B assertion, or while importing and wrapping, returns no record
\* and leaves the kept record untouched; a call that succeeds replaces the
\* kept record whole, by a record whose credential id, salt, wrapped key
\* and iv are those of that one registration; no step of a pending call
\* changes the kept record before the call returns; and the kept record
\* changes in no other step of the program (only damage from outside,
\* which changes nothing else, does that).
C19_RecordAllOrNothing ==
    [][\A c \in ContentClients :
         /\ (bio[c].kind \in {"create", "assert"} /\ bio'[c].kind # "none"
               /\ bio'[c] # bio[c])
            => bioRecord'[c] = bioRecord[c]
         /\ (RegisterReturns(c) /\ ~bioResult'[c].result.ok)
            => /\ bioResult'[c].result.record = NoRecord
               /\ bioRecord'[c] = bioRecord[c]
         /\ (RegisterReturns(c) /\ bioResult'[c].result.ok)
            => /\ bioRecord'[c] = bioResult'[c].result.record
               /\ OneRegistration(bioRecord'[c])
               /\ decodeBase64(bioRecord'[c].salt) = bio[c].salt
               /\ importKey(bioRecord'[c].encryptedKey.pt) = bio[c].masterKey
         /\ (bio[c].kind = "none" /\ bio'[c].kind = "none"
               /\ bioResult'[c].stage = "start" /\ bioResult[c] # bioResult'[c])
            => bioRecord'[c] = bioRecord[c]
         /\ (bioRecord'[c] # bioRecord[c])
            => \/ /\ bio[c].kind \in {"create", "assert"}
                  /\ bio'[c] = NoCall
                  /\ OneRegistration(bioRecord'[c])
                  /\ decodeBase64(bioRecord'[c].salt) = bio[c].salt
                  /\ importKey(bioRecord'[c].encryptedKey.pt)
                       = bio[c].masterKey
               \/ UNCHANGED <<lifecycleVarsButRecord, profile, effectDue,
                              contentVars>>
      ]_vars

\* C19 witness: a registration has returned a record for credential 2 and
\* salt 2, and the kept record is that record, all four fields of the one
\* registration.
C19_Witness ==
    \E c \in ContentClients :
       /\ bioResult[c].stage \in {"create", "assert"}
       /\ bioResult[c].result.ok
       /\ bioRecord[c] = bioResult[c].result.record
       /\ OneRegistration(bioRecord[c])
       /\ decodeBase64(bioRecord[c].credentialId) = 2
       /\ decodeBase64(bioRecord[c].salt) = 2

\* The unlock of client c that returns in this step has failed: the
\* assertion was declined, or came without PRF output, or the wrapped key
\* did not open.
UnlockFails(c) ==
    \/ Answered(bio[c].answer) # "prf"
    \/ ~Unwraps(bio[c].data)

\* C20: in 'reauth' with a record kept, a biometric unlock that fails in
\* any of these ways leaves keyStatus at 'reauth' and the key null, with
\* nothing pending, so that the password form can be submitted; and a
\* biometric unlock moves the session to 'ready' only when it returned a
\* key.
C20_UnlockFailureStaysReauth ==
    [][\A c \in ContentClients :
         /\ (UnlockReturns(c) /\ keyStatus[c] = "reauth" /\ UnlockFails(c))
            => /\ ~bioResult'[c].result.ok
               /\ keyStatus'[c] = "reauth"
               /\ key'[c] = NoKey
               /\ session'[c] = session[c]
               /\ op'[c].kind = "none"
               /\ bio'[c].kind = "none"
               /\ bioRecord'[c] = bioRecord[c]
         /\ (bio[c].kind = "unlock" /\ bio'[c].kind = "none"
               /\ keyStatus[c] = "reauth" /\ keyStatus'[c] = "ready")
            => /\ ~UnlockFails(c)
               /\ bioResult'[c].result.ok
               /\ key'[c] = bioResult'[c].result.key
               /\ key'[c] # NoKey
      ]_vars

\* C20 witness: after an unlock that failed for a missing PRF output the
\* session is in 'reauth' without a key, the record still kept, nothing
\* pending.
C20_Witness ==
    \E c \in ContentClients :
       /\ bioResult[c].stage = "unlock"
       /\ ~bioResult[c].result.ok
       /\ bioResult[c].answered = "noPrf"
       /\ keyStatus[c] = "reauth"
       /\ key[c] = NoKey
       /\ op[c].kind = "none" /\ bio[c].kind = "none"
       /\ bioRecord[c] # NoRecord

\* ------------------------------------------------------ what is stored
\* A ciphertext shows nothing of its key or plaintext to a reader without
\* the key; what a record shows is its columns and, of a ciphertext column,
\* that it is one.
\* A profiles row: id, salt, the key check ciphertext and its iv, name and
\* avatar. The ciphertext is of the constant check string.
ProfileRowHoldsNoSecret(r) ==
    /\ DOMAIN r = {"id", "salt", "key_check_value", "key_check_iv",
                   "full_name", "avatar_url"}
    /\ r.id \in Accounts
    /\ r.salt \in Salts
    /\ r.key_check_iv \in Ivs
    /\ r.key_check_value =
         encrypt(deriveKey(r.key_check_value.k.pw, r.key_check_value.k.salt),
                 KEY_CHECK_STRING, r.key_check_iv).data
    /\ r.full_name \notin Passwords
    /\ r.avatar_url \notin Passwords

\* A diaries row: id, owner, created_at, the entry ciphertext and its iv.
\* The ciphertext is of the JSON of a title and a body, under a derived
\* key.
DiaryRowHoldsNoSecret(r) ==
    /\ DOMAIN r = {"id", "owner_id", "encrypted_entry", "iv", "created_at"}
    /\ r.owner_id \in Accounts
    /\ r.iv \in Ivs
    /\ \E t \in Titles, b \in Bodies :
         r.encrypted_entry =
           encrypt(deriveKey(r.encrypted_entry.k.pw, r.encrypted_entry.k.salt),
                   JSONstringify(t, b), r.iv).data

\* A BiometricData: credential id, salt, the wrapped key and its iv. The
\* master key is in it only as the plaintext of the ciphertext under the
\* wrapping key, and the wrapping key and the PRF output are not in it.
BiometricDataHoldsNoSecret(d) ==
    /\ DOMAIN d = {"credentialId", "salt", "encryptedKey", "iv"}
    /\ decodeBase64(d.credentialId) \in CredentialIds
    /\ decodeBase64(d.salt) \in BioSalts
    /\ d.iv \in Ivs
    /\ d.encryptedKey =
         encrypt(WrappingKey(PRF(decodeBase64(d.credentialId),
                                 decodeBase64(d.salt))),
                 exportKey(importKey(d.encryptedKey.pt)), d.iv).data

\* C21: every row of the profile store, every row of the diary store, and
\* every BiometricData returned by registerBiometric or kept on the device
\* has only its own columns: the password, the master key, the PRF output
\* and the wrapping key are in none of them, the keys being present only as
\* what a ciphertext was made under and the master key, in BiometricData,
\* only as the wrapped plaintext.
C21_RecordsHoldNoSecret ==
    /\ \A r \in profiles : ProfileRowHoldsNoSecret(r)
    /\ \A r \in diaries : DiaryRowHoldsNoSecret(r)
    /\ \A c \in ContentClients :
         /\ bioRecord[c] # NoRecord
            => BiometricDataHoldsNoSecret(bioRecord[c])
         /\ bioResult[c].result.ok
            => BiometricDataHoldsNoSecret(bioResult[c].result.record)

\* C21 witness: a profile row and a diary row are stored; and, in another
\* run, a profile row is stored and a BiometricData is kept.
C21_Witness ==
    /\ profiles # {}
    /\ \/ diaries # {}
       \/ \E c \in ContentClients :
            bioRecord[c] # NoRecord /\ bioResult[c].result.ok

\* ------------------------------------------------------- content round trip
\* The title and body typed into the editor, as the stored row holds them
\* inside its ciphertext.
SavedIn(row) == row.encrypted_entry.pt.json

\* C22: handleSaveEntry encrypts under the session key; the row its insert
\* or update leaves in the store, loaded by fetchEntries under that key,
\* gives the title and body that were saved; and every fetchEntries that
\* loads a row written under its key puts into the list, under the row's
\* id, exactly the title and body saved in it.
C22_ContentRoundTrip ==
    [][\A c \in ContentClients :
         /\ (save[c].kind = "none" /\ save'[c].kind \in {"insert", "update"})
            => save'[c].cipher.data.k = key[c]
         /\ (save[c].kind \in {"insert", "update"} /\ save'[c].kind = "none")
            => \A r \in diaries' \ diaries :
                 LET loaded == DecryptAll(save[c].cipher.data.k, <<r>>)
                 IN /\ Len(loaded) = 1
                    /\ loaded[1].id = r.id
                    /\ loaded[1].title = save[c].title
                    /\ loaded[1].content = save[c].content
         /\ (fetch[c].kind = "query" /\ fetch'[c].kind = "none"
               /\ entries'[c] # entries[c])
            => \A r \in diaries :
                 (r.owner_id = fetch[c].user
                    /\ r.encrypted_entry.k = fetch[c].key
                    /\ r.encrypted_entry.iv = r.iv)
                 => \E i \in DOMAIN entries'[c] :
                      /\ entries'[c][i].id = r.id
                      /\ entries'[c][i].title = SavedIn(r).title
                      /\ entries'[c][i].content = SavedIn(r).content
      ]_vars

\* C22 witness: a later session under the same key has loaded, by
\* fetchEntries, an entry saved with title "t2" in an earlier session.
C22_Witness ==
    \E c \in ContentClients :
       /\ keyStatus[c] = "ready" /\ ~loading[c]
       /\ save[c].kind = "none"
       /\ \E call \in issued[c] : call.call = "decrypt" /\ call.key = key[c]
       /\ \E i \in DOMAIN entries[c] :
            /\ entries[c][i].title = "t2"
            /\ \E r \in diaries :
                 /\ r.id = entries[c][i].id
                 /\ r.encrypted_entry.k = key[c]
                 /\ SavedIn(r).title = "t2"

\* ------------------------------------------------------ isBiometricSupported
\* C23: every isBiometricSupported call resolves, never rejects, to a
\* boolean: false when the WebAuthn API is missing, false when the
\* availability query throws, and the platform's answer otherwise; the call
\* changes nothing of the session, so in 'reauth' and 'needed' the password
\* forms stay as they were.
C23_SupportCheckNeverFails ==
    [][\A c \in ContentClients :
         (bioSupport'[c] # bioSupport[c] /\ bioSupport'[c] # NotAsked)
         => /\ bioSupport'[c].settled = "resolved"
            /\ bioSupport'[c].value \in BOOLEAN
            /\ ~bioSupport'[c].api => ~bioSupport'[c].value
            /\ bioSupport'[c].query = "throws" => ~bioSupport'[c].value
            /\ (bioSupport'[c].api /\ bioSupport'[c].query # "throws")
               => (bioSupport'[c].value <=> bioSupport'[c].query = "true")
            /\ UNCHANGED <<profiles, session, key, keyStatus, op, signingOut,
                           error, initLoading>>
      ]_vars

\* C23 witness: in 'reauth', on a device whose availability query throws,
\* the call has resolved false and the password form is idle.
C23_Witness ==
    \E c \in ContentClients :
       /\ keyStatus[c] = "reauth"
       /\ bioSupport[c].api
       /\ bioSupport[c].query = "throws"
       /\ bioSupport[c].settled = "resolved"
       /\ ~bioSupport[c].value
       /\ op[c].kind = "none"

\* ------------------------------------------------- registration branches
\* The pending registerBiometric call of client c resumes in this step.
RegisterResumes(c, stage) == bio[c].kind = stage /\ bio'[c] # bio[c]
                             /\ bio[c].answer # Awaited

C25_BranchBOneAssertion ==
    [][\A c \in ContentClients :
         /\ (RegisterResumes(c, "create") /\ Answered(bio[c].answer) = "noPrf")
            => /\ bio'[c].kind = "assert"
               /\ bio'[c].answer = Awaited
               /\ bio'[c].cred = bio[c].answer.cred
               /\ bio'[c].salt = bio[c].salt
               /\ bio'[c].masterKey = bio[c].masterKey
               /\ UNCHANGED <<bioResult, bioRecord>>
         /\ (bio'[c].kind = "assert" /\ bio[c].kind # "assert")
            => /\ bio[c].kind = "create"
               /\ Answered(bio[c].answer) = "noPrf"
         /\ RegisterResumes(c, "assert")
            => /\ bio'[c] = NoCall
               /\ (Mounted(c) /\ bioResult'[c].result.ok)
                  => LET d == bioResult'[c].result.record
                     IN /\ Answered(bio[c].answer) = "prf"
                        /\ decodeBase64(d.salt) = bio[c].salt
                        /\ decodeBase64(d.credentialId) = bio[c].cred
                        /\ d.encryptedKey.k =
                             WrappingKey(PRF(bio[c].cred, bio[c].salt))
      ]_vars

\* C25 witness: a registration has returned a record at its Branch B
\* assertion, for credential 2 and salt 2.
C25_Witness ==
    \E c \in ContentClients :
       /\ bio[c] = NoCall
       /\ bioResult[c].stage = "assert"
       /\ bioResult[c].answered = "prf"
       /\ bioResult[c].result.ok
       /\ decodeBase64(bioRecord[c].credentialId) = 2
       /\ decodeBase64(bioRecord[c].salt) = 2

\* ---------------------------------------------------- concurrent setup
\* A 'ready' session of client c holds the key under which the stored key
\* check of its account was made.
ReadyHoldsStoredKey(c) ==
    (Mounted(c) /\ keyStatus[c] = "ready")
    => \E r \in StoredFor(c) : key[c] = SetupKey(r) /\ verifyKeyCheck(key[c], r)

\* C26: in every reachable state a 'ready' session holds the key whose key
\* check is stored for its account, and an account has at most one row;
\* when sessions of one account run first-time setup at the same time, a
\* step stores at most the row of the session whose insert it answers, a
\* second row for the account is never stored, and a session whose insert
\* is answered without its row being stored by that step stays 'needed'
\* with no key.
C26_ReadyKeyIsStoredKey ==
    /\ \A c \in Clients : ReadyHoldsStoredKey(c)
    /\ [][/\ \A c \in Clients : ReadyHoldsStoredKey(c)'
          /\ \A a \in Accounts : Cardinality(RowsOf(profiles', a)) <= 1
          /\ \A c \in Clients :
               (SameSession(c) /\ op[c].kind = "insert" /\ op'[c].kind # "insert")
               => /\ \A r \in profiles' \ profiles : r = op[c].row
                  /\ (op[c].row \notin profiles' \/ op[c].row \in profiles)
                     => /\ keyStatus'[c] = "needed"
                        /\ key'[c] = NoKey
                        /\ key'[c] # op[c].key
         ]_vars

\* C26 witness: two sessions of one account are in first-time setup; the
\* insert of one was stored (the row with salt 2) and it is 'ready' with
\* the key of that row, the setup attempt of the other has failed and it
\* is in 'needed' without a key, the account having that one row.
C26_Witness ==
    \E c1, c2 \in Clients :
       /\ c1 # c2 /\ Mounted(c1) /\ Mounted(c2) /\ session[c1] = session[c2]
       /\ keyStatus[c1] = "ready"
       /\ \E r \in StoredFor(c1) : key[c1] = SetupKey(r) /\ r.salt = 2
       /\ Cardinality(StoredFor(c2)) = 1
       /\ keyStatus[c2] = "needed" /\ key[c2] = NoKey
       /\ op[c2].kind = "none" /\ error[c2] = "setup failed"
       /\ \A r \in StoredFor(c2) : r.salt # 1

\* ------------------------------------------------- failed profile lookup
\* C27: when the profile lookup of checkKeyStatus answers with an error,
\* the step invokes sign-out and leaves keyStatus as it was, which is none
\* of 'needed', 'reauth' and 'ready'; the key and the stored rows are left
\* alone; and a lookup step that sets 'needed' was answered with no row
\* and no error.
C27_LookupErrorSignsOut ==
    [][\A c \in Clients :
         (SameSession(c) /\ op[c].kind = "lookup" /\ op'[c].kind # "lookup")
         => /\ lookupResult'[c] = "error"
               => /\ signingOut'[c]
                  /\ keyStatus'[c] = keyStatus[c]
                  /\ keyStatus'[c] \notin {"needed", "reauth", "ready"}
                  /\ key'[c] = key[c]
                  /\ profiles' = profiles
            /\ (keyStatus'[c] = "needed" /\ keyStatus[c] # "needed")
               => lookupResult'[c] = "null"
      ]_vars

\* C27 witness: the lookup of a session was answered with an error; the
\* sign-out is under way and keyStatus is still 'checking'.
C27_Witness ==
    \E c \in Clients :
       /\ Mounted(c) /\ op[c].kind = "none"
       /\ lookupResult[c] = "error"
       /\ signingOut[c]
       /\ keyStatus[c] = "checking"

\* ------------------------------------------------------- saving an entry
\* The store request of handleSaveEntry of client c is answered in this
\* step.
SaveAnswered(c) == save[c].kind \in {"update", "insert"} /\ save'[c].kind = "none"

\* The id of the entry the pending save of client c is about: the edited
\* entry's, or the one the store gives the new row.
SavedId(c) == IF save[c].kind = "update" THEN save[c].id ELSE nextId

\* After the step the store holds, under that id, the ciphertext the
\* pending save of client c sent.
StoredAfter(c) ==
    \E d \in diaries' :
       /\ d.id = SavedId(c) /\ d.owner_id = save[c].user
       /\ d.encrypted_entry = save[c].cipher.data
       /\ d.iv = save[c].cipher.iv

\* The entries of a list other than the one with the given id.
OtherEntries(list, id) == {list[i] : i \in {j \in DOMAIN list : list[j].id # id}}

\* C28: handleSaveEntry leaves the entries list and the view state as they
\* were when the key is null (then also no encryption is called and no
\* store request is made, only the alert is raised), when the encryption
\* fails, and when the store write fails; when the write succeeds the list
\* holds the saved title and body under the entry's id, its other entries
\* are as before, and the view is 'list'.
C28_SaveFailureChangesNothing ==
    [][\A c \in ContentClients :
         /\ key[c] = NoKey
            => /\ save'[c] = save[c] /\ diaries' = diaries
               /\ issued'[c] = issued[c]
               /\ alerted'[c] \in {alerted[c], AlertNoKey}
         /\ (alerted'[c] = AlertNoKey /\ alerted[c] # AlertNoKey)
            => /\ key[c] = NoKey
               /\ entries'[c] = entries[c] /\ viewState'[c] = viewState[c]
         /\ (save[c].kind = "none" /\ alerted'[c] = AlertSaveFailed
             /\ issued'[c] # issued[c])
            => /\ entries'[c] = entries[c] /\ viewState'[c] = viewState[c]
               /\ save'[c] = save[c] /\ diaries' = diaries
         /\ (SaveAnswered(c) /\ SameSession(c))
            => IF ~StoredAfter(c) \/ alerted'[c] = AlertSaveFailed
               THEN entries'[c] = entries[c] /\ viewState'[c] = viewState[c]
               ELSE /\ viewState'[c] = ListView
                    /\ \E i \in DOMAIN entries'[c] :
                          /\ entries'[c][i].id = SavedId(c)
                          /\ entries'[c][i].title = save[c].title
                          /\ entries'[c][i].content = save[c].content
                    /\ OtherEntries(entries'[c], SavedId(c))
                         = OtherEntries(entries[c], SavedId(c))
      ]_vars

\* C28 witness: handleSaveEntry has run without a key in the editor of an
\* entry of a loaded list: the alert is up, nothing is pending, the list
\* and the editor are as they were.
C28_Witness ==
    \E c \in ContentClients :
       /\ Mounted(c) /\ key[c] = NoKey
       /\ alerted[c] = AlertNoKey
       /\ viewState[c].view = "edit"
       /\ entries[c] # <<>>
       /\ save[c].kind = "none" /\ issued[c] = {}

\* ------------------------------------------------------- the local list
\* The list is ordered by created_at, newest first.
NewestFirst(list) ==
    \A i, j \in DOMAIN list : i < j => list[i].created_at >= list[j].created_at

\* No two entries of the list have the same id.
DistinctIds(list) ==
    \A i, j \in DOMAIN list : list[i].id = list[j].id => i = j

\* The request fetchEntries / handleDeleteEntry of client c made is
\* answered in this step.
FetchAnswered(c) == fetch[c].kind = "query" /\ fetch'[c].kind = "none"
DeleteAnswered(c) == save[c].kind = "delete" /\ save'[c].kind = "none"

\* C29: through every sequence of fetchEntries, handleSaveEntry (create
\* and update) and handleDeleteEntry the local list is ordered by
\* created_at descending and holds no id twice; a declined delete makes no
\* request and a store call that fails (fetch, save or delete) leaves the
\* list as it was.
C29_ListOrderedNoDuplicates ==
    /\ \A c \in ContentClients : NewestFirst(entries[c]) /\ DistinctIds(entries[c])
    /\ [][\A c \in ContentClients :
            /\ NewestFirst(entries'[c]) /\ DistinctIds(entries'[c])
            /\ DeleteRequest(c, FALSE) = save[c]
            /\ (FetchAnswered(c) /\ alerted'[c] = AlertFetchFailed)
               => entries'[c] = entries[c]
            /\ (SaveAnswered(c) /\ alerted'[c] = AlertSaveFailed)
               => entries'[c] = entries[c]
            /\ (DeleteAnswered(c) /\ alerted'[c] = AlertDeleteFailed)
               => entries'[c] = entries[c]
            /\ (DeleteAnswered(c) /\ SameSession(c)
                /\ alerted'[c] # AlertDeleteFailed)
               => entries'[c] = WithoutEntry(entries[c], save[c].id)
         ]_vars

\* C29 witness: a list of two entries, the newer first, as it is after a
\* delete of one of them has failed: the alert is up, the entry is still
\* shown and still in the list.
C29_Witness ==
    \E c \in ContentClients :
       /\ Mounted(c) /\ keyStatus[c] = "ready"
       /\ Len(entries[c]) = 2
       /\ entries[c][1].created_at > entries[c][2].created_at
       /\ alerted[c] = AlertDeleteFailed
       /\ viewState[c].view = "entry"
       /\ viewState[c].id \in EntryIds(entries[c])
       /\ save[c].kind = "none"

\* ------------------------------------------------------- loading cleared
\* The insert of first-time setup of client c is answered in this step.
InsertAnswered(c) == op[c].kind = "insert" /\ op'[c].kind # "insert"

\* C30: every run of fetchEntries that has set loading to true sets it to
\* false: the step that takes the answer of the query clears it, whether
\* the query succeeded, failed, or rows failed to decrypt, and that step
\* comes; every setup submission that has set its loading flag clears it
\* in the step that takes the insert's answer, and that step comes. (A
\* session that ends first takes the component and its flag with it.)
C30_LoadingCleared ==
    /\ [][\A c \in ContentClients :
            /\ (FetchAnswered(c) /\ SameSession(c)) => ~loading'[c]
            /\ (InsertAnswered(c) /\ SameSession(c)) => ~initLoading'[c]
         ]_vars
    /\ \A c \in ContentClients :
         /\ (Mounted(c) /\ fetch[c].kind = "query" /\ loading[c])
            ~> (~loading[c] \/ ~Mounted(c))
         /\ (Mounted(c) /\ initLoading[c])
            ~> (~initLoading[c] \/ ~Mounted(c))

\* C30 witness: fetchEntries has finished over stored rows of which some
\* could not be decrypted (the count was warned about), and loading is
\* false.
C30_Witness ==
    \E c \in ContentClients :
       /\ Mounted(c) /\ keyStatus[c] = "ready"
       /\ fetch[c].kind = "none"
       /\ ~loading[c]
       /\ warnings[c] > 0
       /\ entries[c] # <<>>

====
